---- MODULE Spec2Model ----
(***************************************************************************)
(* A model of the rusl compiler (src/src/main.rs, src/src/anf.rs): the     *)
(* passes uniquify, flatten, select_instructions, uncover_live,            *)
(* assign_homes (compute_live_intervals, allocate_registers, decide_locs), *)
(* lower_conditionals, patch_instructions and print_x86, each translated   *)
(* from its code, the driver read_input that runs them in order, and a     *)
(* small x86-64 machine that executes the emitted instruction sequence.    *)
(*                                                                         *)
(* An abort of the compiler (panic!, unwrap on None, an index out of       *)
(* bounds, process::exit) is a value of its own: an operand or instruction *)
(* tagged "Abort" that records how the process ends.  The driver's actions *)
(* look for it after each pass and stop the run there.                     *)
(***************************************************************************)
EXTENDS Integers, Sequences, FiniteSets, TLC

(***************************************************************************)
(* Bounds of the model.                                                    *)
(***************************************************************************)
\* statements of a generated function body, the Return not counted
MaxStmts == 3
\* parameters of a generated define
MaxParams == 3
\* intervals handed to allocate_registers when it is run on its own
MaxIntervals == 5
\* largest line number of such an interval
MaxLine == 3
\* operands of a generated call or tuple
MaxArgs == 2
\* instructions the machine executes before it is stopped
MaxSteps == 80
\* the ifs of a body are nested up to MaxDepth deep
MaxDepth == 2
\* a define has up to MaxWide parameters and a call up to MaxWide arguments
MaxWide == 7

VARIABLES
    \* the compiler process (read_input, main.rs 873-915)
    argv,      \* the number of command-line arguments, args.len()
    file,      \* the input file: "absent", "unreadable" or "text"
    source,    \* what the run was started on; never changed
    pc,        \* the step of read_input that runs next
    prog,      \* the value handed from one pass to the next
    counter,   \* util's VAR_COUNTER
    stdout,    \* what the process has written to stdout, in order
    status,    \* the exit status of the process, -1 while it runs
    aborted,   \* the step that ended the process early, "" if none did
    \* the machine that runs the emitted assembly
    mach,      \* "idle", "running", "done" or "fault"
    asm,       \* the assembled lines
    ip,        \* index in asm of the next line
    reg,       \* register file
    mem,       \* stack memory: byte address -> 64-bit word
    zf,        \* the zero flag
    frames,    \* per active call, the callee-saved registers at its entry
    printed,   \* the arguments print_int was called with
    steps,     \* instructions executed
    \* allocate_registers on its own (main.rs 478-515)
    live_intervals_vec, \* the sorted Vec the loop runs over
    next_interval,      \* index of the interval the loop handles next
    alloc               \* mapping, free, active_intervals and how it ended

\* what a run is given
ivars == <<argv, file, source>>
cvars == <<ivars, pc, prog, counter, stdout, status, aborted>>
mvars == <<mach, asm, ip, reg, mem, zf, frames, printed, steps>>
avars == <<live_intervals_vec, next_interval, alloc>>
vars == <<cvars, mvars, avars>>

(***************************************************************************)
(* Sequences.                                                              *)
(***************************************************************************)
Range(s) == {s[i] : i \in 1..Len(s)}

RECURSIVE Concat(_)
\* the concatenation of a sequence of sequences
Concat(ss) == IF ss = <<>> THEN <<>> ELSE Head(ss) \o Concat(Tail(ss))

(***************************************************************************)
(* Strings.  A Rust String is modelled as the sequence of its characters,  *)
(* so that concatenation (fresh names) and the byte-wise order of String   *)
(* (the sort key of allocate_registers) are what they are in the program.  *)
(***************************************************************************)
Alphabet ==
    <<"+", "-", "0", "1", "2", "3", "4", "5", "6", "7", "8", "9", "=", "_",
      "a", "b", "c", "d", "e", "f", "g", "h", "i", "j", "k", "l", "m",
      "n", "o", "p", "q", "r", "s", "t", "u", "v", "w", "x", "y", "z">>

\* the place of a character in the ASCII order, among the characters used
CharRank(c) == CHOOSE i \in 1..Len(Alphabet) : Alphabet[i] = c

RECURSIVE StrLess(_, _)
\* <String as Ord>::lt: lexicographic on bytes
StrLess(s, u) ==
    IF u = <<>> THEN FALSE
    ELSE IF s = <<>> THEN TRUE
    ELSE IF Head(s) # Head(u) THEN CharRank(Head(s)) < CharRank(Head(u))
    ELSE StrLess(Tail(s), Tail(u))

Digit(d) == Alphabet[d + 3]

RECURSIVE Decimal(_)
\* format!("{}", n) for n >= 0
Decimal(n) == IF n < 10 THEN <<Digit(n)>>
              ELSE Decimal(n \div 10) \o <<Digit(n % 10)>>

PLUS == <<"+">>
MINUS == <<"-">>
EQ == <<"=">>
TUPLE_REF == <<"t", "u", "p", "l", "e", "-", "r", "e", "f">>
TMP == <<"t", "m", "p">>
IF_ == <<"i", "f">>
THEN_ == <<"t", "h", "e", "n">>
ENDIF == <<"e", "n", "d", "i", "f">>

(***************************************************************************)
(* util::get_unique_varname: the next value of the process-wide counter    *)
(* appended to the prefix (tmp1, tmp2, tmp3 in anf.rs 378-397).            *)
(***************************************************************************)
get_unique_varname(prefix, ctr) == prefix \o Decimal(ctr + 1)

(***************************************************************************)
(* parser::SExpr, as main.rs 104-146 and anf.rs 50-357 match on it.  The   *)
(* bindings of a Let are pairs <<name, value>>.                            *)
(***************************************************************************)
SExprSymbol(name) == [s |-> "Symbol", name |-> name]
SExprFuncName(name) == [s |-> "FuncName", name |-> name]
SExprNumber(n) == [s |-> "Number", n |-> n]
SExprBool(b) == [s |-> "Bool", b |-> b]
SExprLambda(args, body) == [s |-> "Lambda", args |-> args, body |-> body]
SExprTuple(elts) == [s |-> "Tuple", elts |-> elts]
SExprLet(bindings, body) == [s |-> "Let", bindings |-> bindings, body |-> body]
SExprList(elts) == [s |-> "List", elts |-> elts]
SExprDefine(name, args, val) ==
    [s |-> "Define", name |-> name, args |-> args, val |-> val]
SExprIf(cnd, thn, els) == [s |-> "If", cnd |-> cnd, thn |-> thn, els |-> els]
SExprCmp(cc, left, right) ==
    [s |-> "Cmp", cc |-> cc, left |-> left, right |-> right]
SExprApp(f, args) == [s |-> "App", f |-> f, args |-> args]
SExprProg(defs, e) == [s |-> "Prog", defs |-> defs, e |-> e]
SExprEOF == [s |-> "EOF"]

(***************************************************************************)
(* main.rs 102-147.  mapping is the HashMap the caller owns: a function    *)
(* from names to names, changed in place, so a result carries it along     *)
(* with the counter of get_unique_varname.  The match has no arm for       *)
(* SExpr::Cmp, Tuple, FuncName and Lambda.                                 *)
(***************************************************************************)
Uniquified(expr, mapping, ctr, how) ==
    [expr |-> expr, mapping |-> mapping, ctr |-> ctr, how |-> how]

\* HashMap::insert
Insert(mapping, k, v) ==
    [x \in DOMAIN mapping \cup {k} |-> IF x = k THEN v ELSE mapping[x]]

RECURSIVE uniquify(_, _, _)
RECURSIVE UniquifyEach(_, _, _, _)
\* lines 121 and 137: uniquify over es[i..], in order
UniquifyEach(mapping, ctr, es, i) ==
    IF i > Len(es) THEN Uniquified(<<>>, mapping, ctr, "")
    ELSE LET head == uniquify(mapping, ctr, es[i])
         IN  IF head.how # "" THEN head
             ELSE LET rest == UniquifyEach(head.mapping, head.ctr, es, i + 1)
                  IN  IF rest.how # "" THEN rest
                      ELSE Uniquified(<<head.expr>> \o rest.expr,
                                      rest.mapping, rest.ctr, "")

RECURSIVE UniquifyBindings(_, _, _, _)
\* lines 111-116: the loop over the bindings of a Let, from the i-th on
UniquifyBindings(mapping, ctr, bindings, i) ==
    IF i > Len(bindings) THEN Uniquified(<<>>, mapping, ctr, "")
    ELSE LET k == bindings[i][1]
             uniq_k == get_unique_varname(k, ctr)
             v == uniquify(Insert(mapping, k, uniq_k), ctr + 1, bindings[i][2])
         IN  IF v.how # "" THEN v
             ELSE LET rest == UniquifyBindings(v.mapping, v.ctr, bindings, i + 1)
                  IN  IF rest.how # "" THEN rest
                      ELSE Uniquified(<<<<uniq_k, v.expr>>>> \o rest.expr,
                                      rest.mapping, rest.ctr, "")

uniquify(mapping, ctr, expr) ==
    CASE expr.s = "Symbol" ->
            \* mapping.get(&name).unwrap()
            IF expr.name \in DOMAIN mapping
            THEN Uniquified(SExprSymbol(mapping[expr.name]), mapping, ctr, "")
            ELSE Uniquified(expr, mapping, ctr, "panic")
      [] expr.s \in {"Number", "Bool"} -> Uniquified(expr, mapping, ctr, "")
      [] expr.s = "Let" ->
            LET b == UniquifyBindings(mapping, ctr, expr.bindings, 1)
            IN  IF b.how # "" THEN b
                ELSE LET body == uniquify(b.mapping, b.ctr, expr.body)
                     IN  Uniquified(SExprLet(b.expr, body.expr), body.mapping,
                                    body.ctr, body.how)
      [] expr.s = "List" ->
            LET elts == UniquifyEach(mapping, ctr, expr.elts, 1)
            IN  Uniquified(SExprList(elts.expr), elts.mapping, elts.ctr,
                           elts.how)
      [] expr.s = "Define" ->
            LET val == uniquify(mapping, ctr, expr.val)
            IN  Uniquified(SExprDefine(expr.name, expr.args, val.expr),
                           val.mapping, val.ctr, val.how)
      [] expr.s = "If" ->
            LET parts == UniquifyEach(mapping, ctr,
                                      <<expr.cnd, expr.thn, expr.els>>, 1)
            IN  IF parts.how # "" THEN parts
                ELSE Uniquified(SExprIf(parts.expr[1], parts.expr[2],
                                        parts.expr[3]),
                                parts.mapping, parts.ctr, "")
      [] expr.s = "App" ->
            LET args == UniquifyEach(mapping, ctr, expr.args, 1)
            IN  Uniquified(SExprApp(expr.f, args.expr), args.mapping, args.ctr,
                           args.how)
      [] expr.s = "Prog" ->
            LET e == uniquify(mapping, ctr, expr.e)
            IN  Uniquified(SExprProg(expr.defs, e.expr), e.mapping, e.ctr,
                           e.how)
      [] expr.s = "EOF" -> Uniquified(expr, mapping, ctr, "exit0")

(***************************************************************************)
(* anf.rs: the Flat IR.                                                    *)
(***************************************************************************)
Sym(name) == [t |-> "Symbol", name |-> name]
FuncName(name) == [t |-> "FuncName", name |-> name]
Num(n) == [t |-> "Number", n |-> n]
Bool(b) == [t |-> "Bool", b |-> b]
FTuple(elts) == [t |-> "Tuple", elts |-> elts]
Assign(dest, e) == [t |-> "Assign", dest |-> dest, e |-> e]
Return(v) == [t |-> "Return", v |-> v]
FIf(cnd, thn, els) == [t |-> "If", cnd |-> cnd, thn |-> thn, els |-> els]
FCmp(cc, left, right) == [t |-> "Cmp", cc |-> cc, left |-> left, right |-> right]
FApp(f, args) == [t |-> "App", fname |-> f, args |-> args]
Prim(f, args) == [t |-> "Prim", fname |-> f, args |-> args]
\* main.rs matches on Flat::EqP (lines 238, 252), which anf.rs does not declare
FEqP(left, right) == [t |-> "EqP", left |-> left, right |-> right]

FlatProg(defs, assigns, vs) ==
    [t |-> "FlatProg", defs |-> defs, assigns |-> assigns, vars |-> vs]
FlatDefine(name, args, assigns, vs) ==
    [t |-> "FlatDefine", name |-> name, args |-> args, assigns |-> assigns,
     vars |-> vs]

\* FlatResult::Flat
FlatFlat(flat, assigns, vs) ==
    [t |-> "Flat", flat |-> flat, assigns |-> assigns, vars |-> vs]

(***************************************************************************)
(* anf.rs 26-359.  A result is [res, ctr, how]: the FlatResult, the        *)
(* counter of get_unique_varname after the call, and how the call ended.   *)
(***************************************************************************)
Flattened(res, ctr, how) == [res |-> res, ctr |-> ctr, how |-> how]

\* match flatten(x) { FlatResult::Flat(..) => .., _ => panic!(..) }
Expect(r) ==
    IF r.how = "" /\ r.res.t # "Flat"
    THEN Flattened(r.res, r.ctr, "panic")
    ELSE r

\* a flatten that names nothing: the compound e itself stands where its
\* name would, and no statement is added
Inlined(temp, e, assigns, vs) == FlatFlat(e, assigns, vs)

\* the compound e is assigned to the fresh name temp, after the statements
\* of its operands, and temp stands for it (lines 73-81, 195-209, 228-235,
\* 254-265, 283-294)
Named(temp, e, assigns, vs) ==
    FlatFlat(Sym(temp), Append(assigns, Assign(temp, e)), Append(vs, temp))

FlatArgs(flat_args, args_assigns, args_vars) ==
    [t |-> "Args", flat |-> flat_args, assigns |-> args_assigns,
     vars |-> args_vars]

RECURSIVE Dedup(_)
\* Vec::dedup: consecutive equal elements become one
Dedup(vs) ==
    IF Len(vs) < 2 THEN vs
    ELSE IF vs[1] = vs[2] THEN Dedup(Tail(vs))
    ELSE <<vs[1]>> \o Dedup(Tail(vs))

RECURSIVE flatten(_, _)
RECURSIVE FlattenEach(_, _, _)
\* lines 32-41 and 69-78: the loop over args[i..]
FlattenEach(args, ctr, i) ==
    IF i > Len(args) THEN Flattened(FlatArgs(<<>>, <<>>, <<>>), ctr, "")
    ELSE LET head == Expect(flatten(args[i], ctr))
         IN  IF head.how # "" THEN head
             ELSE LET rest == FlattenEach(args, head.ctr, i + 1)
                  IN  IF rest.how # "" THEN rest
                      ELSE Flattened(
                               FlatArgs(<<head.res.flat>> \o rest.res.flat,
                                        head.res.assigns \o rest.res.assigns,
                                        head.res.vars \o rest.res.vars),
                               rest.ctr, "")

flatten_args(args, ctr) == FlattenEach(args, ctr, 1)

RECURSIVE FlattenBindings(_, _, _)
\* lines 100-116: the loop over the bindings of a Let, from the i-th on
FlattenBindings(bindings, ctr, i) ==
    IF i > Len(bindings) THEN Flattened(FlatArgs(<<>>, <<>>, <<>>), ctr, "")
    ELSE LET k == bindings[i][1]
             v == Expect(flatten(bindings[i][2], ctr))
         IN  IF v.how # "" THEN v
             ELSE LET rest == FlattenBindings(bindings, v.ctr, i + 1)
                      flat_v == v.res.flat
                  IN  IF rest.how # "" THEN rest
                      ELSE Flattened(
                               FlatArgs(<<>>,
                                        v.res.assigns \o <<Assign(k, flat_v)>>
                                            \o rest.res.assigns,
                                        (IF flat_v.t = "Symbol"
                                         THEN <<flat_v.name>> ELSE <<>>)
                                            \o v.res.vars \o <<k>>
                                            \o rest.res.vars),
                               rest.ctr, "")

\* lines 216-235: (- e)
FlattenNeg(args, ctr) ==
    IF Len(args) # 1 THEN Flattened(FlatArgs(<<>>, <<>>, <<>>), ctr, "panic")
    ELSE LET e == Expect(flatten(args[1], ctr))
         IN  IF e.how # "" THEN e
             ELSE Flattened(Named(get_unique_varname(TMP, e.ctr),
                                  Prim(MINUS, <<e.res.flat>>),
                                  e.res.assigns, e.res.vars),
                            e.ctr + 1, "")

\* an addition that takes its temporary before its operands are flattened,
\* as the Tuple arm does
FlattenPlusNamedFirst(args, ctr) ==
    IF Len(args) # 2 THEN Flattened(FlatArgs(<<>>, <<>>, <<>>), ctr, "panic")
    ELSE LET e == FlattenEach(args, ctr + 1, 1)
         IN  IF e.how # "" THEN e
             ELSE Flattened(Named(get_unique_varname(TMP, ctr),
                                  Prim(PLUS, e.res.flat),
                                  e.res.assigns, e.res.vars),
                            e.ctr, "")

\* lines 236-265: (+ e1 e2)
FlattenPlus(args, ctr) ==
    IF Len(args) # 2 THEN Flattened(FlatArgs(<<>>, <<>>, <<>>), ctr, "panic")
    ELSE LET e == FlattenEach(args, ctr, 1)
         IN  IF e.how # "" THEN e
             ELSE Flattened(Named(get_unique_varname(TMP, e.ctr),
                                  Prim(PLUS, e.res.flat),
                                  e.res.assigns, e.res.vars),
                            e.ctr + 1, "")

\* lines 266-294: (tuple-ref tuple index)
FlattenTupleRef(args, ctr) ==
    IF Len(args) # 2 \/ args[2].s # "Number"
    THEN Flattened(FlatArgs(<<>>, <<>>, <<>>), ctr, "panic")
    ELSE LET tuple == Expect(flatten(args[1], ctr))
         IN  IF tuple.how # "" THEN tuple
             ELSE Flattened(Named(get_unique_varname(TMP, tuple.ctr),
                                  Prim(TUPLE_REF,
                                       <<tuple.res.flat, Num(args[2].n)>>),
                                  tuple.res.assigns, tuple.res.vars),
                            tuple.ctr + 1, "")

\* lines 302-327: ((f ..) args)
FlattenCall(f, args, ctr) ==
    LET fref == Expect(flatten(f, ctr))
    IN  IF fref.how # "" THEN fref
        ELSE IF fref.res.flat.t # "Symbol"
        THEN Flattened(fref.res, fref.ctr, "panic")
        ELSE LET app_temp == get_unique_varname(TMP, fref.ctr)
                 a == flatten_args(args, fref.ctr + 1)
             IN  IF a.how # "" THEN a
                 ELSE Flattened(
                          FlatFlat(Sym(app_temp),
                                   fref.res.assigns \o a.res.assigns
                                       \o <<Assign(app_temp,
                                                   FApp(fref.res.flat.name,
                                                        a.res.flat))>>,
                                   fref.res.vars \o <<app_temp>> \o a.res.vars),
                          a.ctr, "")

\* a Define that leaves the parameters in the variable list
FlattenDefineKeepingArgs(name, args, body, ctr) ==
    LET b == Expect(flatten(body, ctr))
    IN  IF b.how # "" THEN b
        ELSE Flattened(FlatDefine(name, args,
                                  Append(b.res.assigns, Return(b.res.flat)),
                                  b.res.vars),
                       b.ctr, "")

\* lines 126-146: (define (name args ..) body)
FlattenDefine(name, args, body, ctr) ==
    LET b == Expect(flatten(body, ctr))
    IN  IF b.how # "" THEN b
        ELSE Flattened(FlatDefine(name, args,
                                  Append(b.res.assigns, Return(b.res.flat)),
                                  SelectSeq(b.res.vars,
                                            LAMBDA v : v \notin Range(args))),
                       b.ctr, "")

RECURSIVE FlattenDefs(_, _, _)
\* lines 340-343: flatten over defs[i..]; res is the sequence of the results
FlattenDefs(defs, ctr, i) ==
    IF i > Len(defs) THEN Flattened(<<>>, ctr, "")
    ELSE LET head == flatten(defs[i], ctr)
         IN  IF head.how # "" THEN head
             ELSE LET rest == FlattenDefs(defs, head.ctr, i + 1)
                  IN  IF rest.how # "" THEN rest
                      ELSE Flattened(<<head.res>> \o rest.res, rest.ctr, "")

\* lines 49-359
flatten(expr, ctr) ==
    CASE expr.s = "Symbol" ->
            Flattened(FlatFlat(Sym(expr.name), <<>>, <<expr.name>>), ctr, "")
      [] expr.s = "FuncName" ->
            Flattened(FlatFlat(FuncName(expr.name), <<>>, <<expr.name>>),
                      ctr, "")
      [] expr.s = "Number" ->
            Flattened(FlatFlat(Num(expr.n), <<>>, <<>>), ctr, "")
      [] expr.s = "Bool" ->
            Flattened(FlatFlat(Bool(expr.b), <<>>, <<>>), ctr, "")
      [] expr.s = "Tuple" ->
            \* line 65: the name is taken before the elements are flattened
            LET elts == FlattenEach(expr.elts, ctr + 1, 1)
            IN  IF elts.how # "" THEN elts
                ELSE Flattened(Named(get_unique_varname(TMP, ctr),
                                     FTuple(elts.res.flat),
                                     elts.res.assigns, elts.res.vars),
                               elts.ctr, "")
      [] expr.s = "Let" ->
            \* lines 92-96: the body is flattened before the bindings
            LET body == Expect(flatten(expr.body, ctr))
            IN  IF body.how # "" THEN body
                ELSE LET b == FlattenBindings(expr.bindings, body.ctr, 1)
                     IN  IF b.how # "" THEN b
                         ELSE Flattened(
                                  FlatFlat(body.res.flat,
                                           b.res.assigns \o body.res.assigns,
                                           b.res.vars \o body.res.vars),
                                  b.ctr, "")
      [] expr.s = "Define" ->
            FlattenDefine(expr.name, expr.args, expr.val, ctr)
      [] expr.s = "If" ->
            LET cnd == Expect(flatten(expr.cnd, ctr))
                thn == Expect(flatten(expr.thn, cnd.ctr))
                els == Expect(flatten(expr.els, thn.ctr))
                if_temp == get_unique_varname(IF_, els.ctr)
            IN  IF cnd.how # "" THEN cnd
                ELSE IF thn.how # "" THEN thn
                ELSE IF els.how # "" THEN els
                ELSE Flattened(
                         FlatFlat(Sym(if_temp),
                                  Append(cnd.res.assigns,
                                         FIf(cnd.res.flat,
                                             Append(thn.res.assigns,
                                                    Assign(if_temp,
                                                           thn.res.flat)),
                                             Append(els.res.assigns,
                                                    Assign(if_temp,
                                                           els.res.flat)))),
                                  cnd.res.vars \o thn.res.vars
                                      \o els.res.vars \o <<if_temp>>),
                         els.ctr + 1, "")
      [] expr.s = "Cmp" ->
            LET sides == FlattenEach(<<expr.left, expr.right>>, ctr, 1)
            IN  IF sides.how # "" THEN sides
                ELSE Flattened(Named(get_unique_varname(TMP, sides.ctr),
                                     FCmp(expr.cc, sides.res.flat[1],
                                          sides.res.flat[2]),
                                     sides.res.assigns, sides.res.vars),
                               sides.ctr + 1, "")
      [] expr.s = "App" ->
            CASE expr.f.s = "Symbol" ->
                    CASE expr.f.name = MINUS -> FlattenNeg(expr.args, ctr)
                      [] expr.f.name = PLUS -> FlattenPlus(expr.args, ctr)
                      [] expr.f.name = TUPLE_REF ->
                            FlattenTupleRef(expr.args, ctr)
                      [] OTHER ->
                            \* lines 296-300: the arguments are not used
                            flatten(SExprApp(
                                        SExprSymbol(TUPLE_REF),
                                        <<SExprTuple(<<SExprFuncName(
                                                           expr.f.name)>>),
                                          SExprNumber(0)>>),
                                    ctr)
              [] expr.f.s = "App" -> FlattenCall(expr.f, expr.args, ctr)
              [] OTHER -> Flattened(FlatArgs(<<>>, <<>>, <<>>), ctr, "panic")
      [] expr.s = "Prog" ->
            LET e == Expect(flatten(expr.e, ctr))
            IN  IF e.how # "" THEN e
                ELSE LET defs == FlattenDefs(expr.defs, e.ctr, 1)
                     IN  IF defs.how # "" THEN defs
                         ELSE Flattened(
                                  FlatProg(defs.res,
                                           Append(e.res.assigns,
                                                  Return(e.res.flat)),
                                           Dedup(e.res.vars)),
                                  defs.ctr, "")
      \* Lambda (line 63), List (line 123), EOF (line 357)
      [] OTHER -> Flattened(FlatArgs(<<>>, <<>>, <<>>), ctr, "panic")

(***************************************************************************)
(* main.rs: pseudo-x86.                                                    *)
(***************************************************************************)
Reg(r) == [a |-> "Reg", r |-> r]
Imm(n) == [a |-> "Imm", n |-> n]
RegOffset(r, off) == [a |-> "RegOffset", r |-> r, off |-> off]
Var(name) == [a |-> "Var", name |-> name]
\* the operand position of a call that ended the process
AbortArg(how) == [a |-> "Abort", how |-> how]

Mov(dst, src) == [op |-> "Mov", dst |-> dst, src |-> src]
Add(dst, src) == [op |-> "Add", dst |-> dst, src |-> src]
Cmp(left, right) == [op |-> "Cmp", left |-> left, right |-> right]
EqP(left, right) == [op |-> "EqP", left |-> left, right |-> right]
If(cnd, thn, els) == [op |-> "If", cnd |-> cnd, thn |-> thn, els |-> els]
IfWithLives(cnd, thn, thn_lives, els, els_lives) ==
    [op |-> "IfWithLives", cnd |-> cnd, thn |-> thn, thn_lives |-> thn_lives,
     els |-> els, els_lives |-> els_lives]
Call(label) == [op |-> "Call", label |-> label]
JmpIf(cc, label) == [op |-> "JmpIf", cc |-> cc, label |-> label]
Jmp(label) == [op |-> "Jmp", label |-> label]
Label(label) == [op |-> "Label", label |-> label]
\* the instruction position of a call that ended the process
Abort(how) == [op |-> "Abort", how |-> how]

Define(name, vs, instrs) ==
    [op |-> "Define", name |-> name, vars |-> vs, instrs |-> instrs]
DefineWithLives(name, vs, live_sets, instrs) ==
    [op |-> "DefineWithLives", name |-> name, vars |-> vs,
     live_sets |-> live_sets, instrs |-> instrs]
Prog(defs, instrs, vs) ==
    [op |-> "Prog", defs |-> defs, instrs |-> instrs, vars |-> vs]
ProgWithLives(defs, instrs, vs, live_sets) ==
    [op |-> "ProgWithLives", defs |-> defs, instrs |-> instrs, vars |-> vs,
     live_sets |-> live_sets]

callee_save_regs == <<"rbx", "r12", "r13", "r14">>
\* an order with a seventh argument register
arg_reg_order_of_seven == <<"rdi", "rsi", "rdx", "rcx", "r8", "r9", "r10">>
arg_reg_order == <<"rdi", "rsi", "rdx", "rcx", "r8", "r9">>

(***************************************************************************)
(* How a pass ended: "" when it returned, else the way the process ended.  *)
(*   "panic"  panic!, unwrap on None, index out of bounds: status 101      *)
(*   "print"  println!("{:?}", x) and then panic!("NYI") (main.rs 223)     *)
(*   "exit0"  error!(..) and then process::exit(0)                         *)
(***************************************************************************)
ArgAbort(x) == IF x.a = "Abort" THEN x.how ELSE ""

First(hows) ==
    IF \E i \in 1..Len(hows) : hows[i] # ""
    THEN hows[CHOOSE i \in 1..Len(hows) :
                 hows[i] # "" /\ \A j \in 1..(i-1) : hows[j] = ""]
    ELSE ""

RECURSIVE InstrAbort(_)
\* operands are built before the instruction that holds them; the operands of
\* an If's EqP are built after its branches (main.rs 242-255)
InstrAbort(i) ==
    CASE i.op = "Abort" -> i.how
      [] i.op \in {"Mov", "Add"} -> First(<<ArgAbort(i.dst), ArgAbort(i.src)>>)
      [] i.op \in {"Cmp", "EqP"} -> First(<<ArgAbort(i.left), ArgAbort(i.right)>>)
      [] i.op \in {"If", "IfWithLives"} ->
            First([k \in 1..Len(i.thn) |-> InstrAbort(i.thn[k])]
                  \o [k \in 1..Len(i.els) |-> InstrAbort(i.els[k])]
                  \o <<InstrAbort(i.cnd)>>)
      [] i.op \in {"Define", "DefineWithLives"} ->
            First([k \in 1..Len(i.instrs) |-> InstrAbort(i.instrs[k])])
      [] OTHER -> ""

InstrsAbort(instrs) == First([k \in 1..Len(instrs) |-> InstrAbort(instrs[k])])

(***************************************************************************)
(* main.rs 150-165                                                         *)
(***************************************************************************)
flat_arg_type(v) ==
    CASE v.t = "Symbol" -> Var(v.name)
      [] v.t = "Number" -> Imm(v.n)
      [] v.t = "Bool" -> IF v.b THEN Imm(1) ELSE Imm(0)
      [] OTHER -> AbortArg("exit0")

(***************************************************************************)
(* main.rs 168-259                                                         *)
(***************************************************************************)
RECURSIVE flat_to_px86(_)
flat_to_px86(instr) ==
    CASE instr.t = "Assign" ->
            LET dest == instr.dest
                e == instr.e
            IN  CASE e.t = "Symbol" -> <<Mov(Var(dest), Var(e.name))>>
                  [] e.t = "Number" -> <<Mov(Var(dest), Imm(e.n))>>
                  [] e.t = "Bool" ->
                        <<Mov(Var(dest), Imm(IF e.b THEN 1 ELSE 0))>>
                  [] e.t = "Prim" ->
                        IF e.fname = PLUS
                        THEN IF Len(e.args) = 2
                             THEN <<Mov(Var(dest), flat_arg_type(e.args[1])),
                                    Add(Var(dest), flat_arg_type(e.args[2]))>>
                             ELSE <<Abort("exit0")>>
                        ELSE <<Abort("panic")>>
                  [] e.t = "App" ->
                        \* arg_reg_order[i] is out of bounds for i >= 6
                        [i \in 1..Len(e.args) |->
                            IF ArgAbort(flat_arg_type(e.args[i])) # ""
                            THEN Mov(Reg("rdi"), flat_arg_type(e.args[i]))
                            ELSE IF i > Len(arg_reg_order)
                            THEN Abort("panic")
                            ELSE Mov(Reg(arg_reg_order[i]),
                                     flat_arg_type(e.args[i]))]
                        \o <<Call(e.fname), Mov(Var(dest), Reg("rax"))>>
                  [] OTHER -> <<Abort("print")>>
      [] instr.t = "Return" -> <<Mov(Reg("rax"), flat_arg_type(instr.v))>>
      [] instr.t = "If" ->
            IF instr.cnd.t # "EqP"
            THEN <<Abort("panic")>>
            ELSE <<If(EqP(flat_arg_type(instr.cnd.left),
                          flat_arg_type(instr.cnd.right)),
                      Concat([k \in 1..Len(instr.thn) |->
                                 flat_to_px86(instr.thn[k])]),
                      Concat([k \in 1..Len(instr.els) |->
                                 flat_to_px86(instr.els[k])]))>>
      [] OTHER -> <<Abort("panic")>>

(***************************************************************************)
(* main.rs 264-305                                                         *)
(***************************************************************************)
select_define(d) ==
    IF d.t # "FlatDefine"
    THEN Abort("panic")
    ELSE LET move_args ==
                 [i \in 1..Len(d.args) |->
                     IF i > Len(arg_reg_order)
                     THEN Abort("panic")
                     ELSE Mov(Var(d.args[i]), Reg(arg_reg_order[i]))]
         IN  Define(d.name,
                    d.vars \o d.args,
                    move_args \o Concat([k \in 1..Len(d.assigns) |->
                                            flat_to_px86(d.assigns[k])]))

select_instructions(flat_prog) ==
    CASE flat_prog.t = "FlatDefine" -> select_define(flat_prog)
      [] flat_prog.t = "FlatProg" ->
            Prog([k \in 1..Len(flat_prog.defs) |->
                     select_define(flat_prog.defs[k])],
                 Concat([k \in 1..Len(flat_prog.assigns) |->
                            flat_to_px86(flat_prog.assigns[k])]),
                 flat_prog.vars)
      [] OTHER -> Abort("panic")

\* how a pass over a whole program ended: the defines are built before main
\* in select_instructions (main.rs 291-300)
ProgAbort(p) ==
    CASE p.op = "Abort" -> p.how
      [] p.op \in {"Prog", "ProgWithLives"} ->
            First([k \in 1..Len(p.defs) |-> InstrAbort(p.defs[k])]
                  \o <<InstrsAbort(p.instrs)>>)
      [] OTHER -> InstrAbort(p)

(***************************************************************************)
(* main.rs 309-354: the variables an instruction reads and writes.         *)
(***************************************************************************)
RW(read, written) == [read |-> read, written |-> written, how |-> ""]

instruction_rw(instr) ==
    CASE instr.op = "Mov" /\ instr.dst.a = "Var" /\ instr.src.a = "Var" ->
            RW({instr.src.name}, {instr.dst.name})
      [] instr.op = "Mov" /\ instr.dst.a = "Var" /\ instr.src.a # "Var" ->
            RW({}, {instr.dst.name})
      [] instr.op = "Mov" /\ instr.dst.a = "Reg" /\ instr.src.a = "Var" ->
            RW({instr.src.name}, {})
      [] instr.op = "Cmp" ->
            RW({x.name : x \in {y \in {instr.left, instr.right} : y.a = "Var"}},
               {})
      [] instr.op = "Add" /\ instr.dst.a = "Var" /\ instr.src.a = "Var" ->
            RW({instr.dst.name, instr.src.name}, {instr.dst.name})
      [] instr.op = "Add" /\ instr.dst.a = "Var" /\ instr.src.a # "Var" ->
            RW({instr.dst.name}, {instr.dst.name})
      [] instr.op = "Call" -> RW({}, {})
      [] OTHER -> [read |-> {}, written |-> {}, how |-> "panic"]

\* main.rs 373-386: the variables of an If's condition
cond_vars(cnd) ==
    {x.name : x \in {y \in {cnd.left, cnd.right} : y.a = "Var"}}

(***************************************************************************)
(* main.rs 359-422.  The instructions are walked from the last to the      *)
(* first; Live(instrs, lives, i) is the result for instrs[i..], in forward *)
(* order as after the two reverse() calls of lines 419-420.                *)
(***************************************************************************)
LiveResult(live, sets, instrs, how) ==
    [live |-> live, sets |-> sets, instrs |-> instrs, how |-> how]

RECURSIVE Live(_, _, _)
Live(instrs, lives, i) ==
    IF i > Len(instrs)
    THEN LiveResult(lives, <<>>, <<>>, "")
    ELSE LET next == Live(instrs, lives, i + 1)
             live_of_next == next.live
             instr == instrs[i]
         IN  IF next.how # "" THEN next
             ELSE IF instr.op = "If"
             THEN LET thn == Live(instr.thn, live_of_next, 1)
                      els == Live(instr.els, live_of_next, 1)
                      \* lines 388-391: lives is the parameter of the call
                      live == lives \cup thn.live \cup els.live
                  IN  IF thn.how # "" THEN thn
                      ELSE IF els.how # "" THEN els
                      ELSE IF instr.cnd.op # "EqP"
                      THEN LiveResult({}, <<>>, <<>>, "panic")
                      ELSE LiveResult(
                               live,
                               <<live>> \o next.sets,
                               <<IfWithLives(instr.cnd, thn.instrs, thn.sets,
                                             els.instrs, els.sets)>>
                                   \o next.instrs,
                               "")
             ELSE LET rw == instruction_rw(instr)
                      live == (live_of_next \ rw.written) \cup rw.read
                  IN  IF rw.how # ""
                      THEN LiveResult({}, <<>>, <<>>, rw.how)
                      ELSE LiveResult(live, <<live>> \o next.sets,
                                      <<instr>> \o next.instrs, "")

get_live_after_sets(instrs, lives) == Live(instrs, lives, 1)

(***************************************************************************)
(* main.rs 424-442                                                         *)
(***************************************************************************)
uncover_live_define(d) ==
    IF d.op # "Define" THEN Abort("panic")
    ELSE LET r == get_live_after_sets(d.instrs, {})
         IN  IF r.how # "" THEN Abort(r.how)
             ELSE DefineWithLives(d.name, d.vars, r.sets, r.instrs)

uncover_live(p) ==
    CASE p.op = "Define" -> uncover_live_define(p)
      [] p.op = "Prog" ->
            LET r == get_live_after_sets(p.instrs, {})
            IN  IF r.how # "" THEN Abort(r.how)
                ELSE ProgWithLives(
                         [k \in 1..Len(p.defs) |-> uncover_live_define(p.defs[k])],
                         r.instrs, p.vars, r.sets)
      [] OTHER -> Abort("panic")

(***************************************************************************)
(* main.rs 446-474.  live_intervals is a function from variable names to   *)
(* <<start, end>>.  Intervals(.., i) handles instrs[i..] from line_num on. *)
(***************************************************************************)
Min(a, b) == IF a < b THEN a ELSE b

Touch(live_intervals, live_set, line_num) ==
    [v \in DOMAIN live_intervals \cup live_set |->
        IF v \in live_set
        THEN IF v \in DOMAIN live_intervals
             THEN <<live_intervals[v][1], line_num>>
             ELSE <<line_num - 1, line_num>>
        ELSE live_intervals[v]]

RECURSIVE Intervals(_, _, _, _, _)
Intervals(instrs, live_sets, live_intervals, line_num, i) ==
    IF i > Min(Len(instrs), Len(live_sets))
    THEN live_intervals
    ELSE LET instr == instrs[i]
         IN  IF instr.op = "IfWithLives"
             THEN LET after_thn ==
                          Intervals(instr.thn, instr.thn_lives, live_intervals,
                                    line_num, 1)
                      after_els ==
                          Intervals(instr.els, instr.els_lives, after_thn,
                                    line_num, 1)
                  IN  Intervals(instrs, live_sets, after_els,
                                line_num + Len(instr.thn) + Len(instr.els),
                                i + 1)
             ELSE Intervals(instrs, live_sets,
                            Touch(live_intervals, live_sets[i], line_num),
                            line_num + 1, i + 1)

compute_live_intervals(instrs, live_sets, live_intervals, init_line_num) ==
    Intervals(instrs, live_sets, live_intervals, init_line_num, 1)

(***************************************************************************)
(* main.rs 478-515.  An interval is [v, start, end]; mapping is a function *)
(* from variable names to register indices; free is the Vec free, whose    *)
(* last element pop() takes.                                               *)
(***************************************************************************)
Interval(v, start, end) == [v |-> v, start |-> start, end |-> end]

RECURSIVE SortedNames(_)
\* the names of S in increasing String order
SortedNames(S) ==
    IF S = {} THEN <<>>
    ELSE LET least == CHOOSE v \in S : \A w \in S \ {v} : StrLess(v, w)
         IN  <<least>> \o SortedNames(S \ {least})

\* lines 480-484: the key of sort_by_key is interval.0, the variable's name
\* (the keys of a HashMap are distinct, so the order the map is iterated in
\* does not show in the result)
sort_by_key(live_intervals) ==
    LET names == SortedNames(DOMAIN live_intervals)
    IN  [k \in 1..Len(names) |->
            Interval(names[k], live_intervals[names[k]][1],
                     live_intervals[names[k]][2])]

RemoveAt(s, i) == SubSeq(s, 1, i - 1) \o SubSeq(s, i + 1, Len(s))

AllocState(mapping, free, active_intervals, how) ==
    [mapping |-> mapping, free |-> free,
     active_intervals |-> active_intervals, how |-> how]

RECURSIVE Expire(_, _, _, _)
\* lines 493-504: the loop runs over a clone of active_intervals taken before
\* it, and removes from active_intervals itself at the clone's index; Vec::remove
\* panics when the index is not below the length
Expire(clone, i, st, start) ==
    IF i > Len(clone) \/ st.how # ""
    THEN st
    ELSE IF clone[i].end < start
    THEN IF i > Len(st.active_intervals)
         THEN AllocState(st.mapping, st.free, st.active_intervals, "panic")
         ELSE Expire(clone, i + 1,
                     AllocState(st.mapping,
                                IF clone[i].v \in DOMAIN st.mapping
                                THEN Append(st.free, st.mapping[clone[i].v])
                                ELSE st.free,
                                RemoveAt(st.active_intervals, i),
                                ""),
                     start)
    ELSE Expire(clone, i + 1, st, start)

\* lines 490-513: the body of the loop over live_intervals_vec, for one interval
AllocStep(st, iv) ==
    LET e == Expire(st.active_intervals, 1, st, iv.start)
    IN  IF e.how # "" THEN e
        ELSE IF Len(e.free) > 0
        THEN AllocState([x \in DOMAIN e.mapping \cup {iv.v} |->
                            IF x = iv.v THEN e.free[Len(e.free)]
                            ELSE e.mapping[x]],
                        SubSeq(e.free, 1, Len(e.free) - 1),
                        Append(e.active_intervals, iv),
                        "")
        ELSE AllocState(e.mapping, e.free, Append(e.active_intervals, iv), "")

\* lines 485-488
AllocInit == AllocState(<<>>, <<1, 2>>, <<>>, "")

RECURSIVE AllocLoop(_, _, _)
AllocLoop(vec, i, st) ==
    IF i > Len(vec) \/ st.how # "" THEN st
    ELSE AllocLoop(vec, i + 1, AllocStep(st, vec[i]))

allocate_registers(live_intervals) ==
    AllocLoop(sort_by_key(live_intervals), 1, AllocInit)

(***************************************************************************)
(* main.rs 579-605                                                         *)
(***************************************************************************)
regs == <<"rbx", "rdx", "rcx">>

\* a decide_locs whose stack_size stays at 1: every spill is at [rbp-8]
LocsInOneSlot(vs, i, reg_alloc, locs, stack_size) ==
    [x \in Range(vs) |->
        IF x \in DOMAIN reg_alloc THEN Reg(regs[reg_alloc[x] + 1])
        ELSE RegOffset("rbp", -8)]

RECURSIVE Locs(_, _, _, _, _)
\* lines 591-602: the loop over vars; a later insert of the same key replaces
\* the earlier one
Locs(vs, i, reg_alloc, locs, stack_size) ==
    IF i > Len(vs) THEN locs
    ELSE LET var == vs[i]
             in_reg == var \in DOMAIN reg_alloc
             size == IF in_reg THEN stack_size ELSE stack_size + 1
             home == IF in_reg THEN Reg(regs[reg_alloc[var] + 1])
                     ELSE RegOffset("rbp", size * (-8))
         IN  Locs(vs, i + 1, reg_alloc,
                  [x \in DOMAIN locs \cup {var} |->
                      IF x = var THEN home ELSE locs[x]],
                  size)

decide_locs(vs, instrs, live_sets) ==
    LET live_intervals == compute_live_intervals(instrs, live_sets, <<>>, 1)
        reg_alloc == allocate_registers(live_intervals)
    IN  [locs |-> Locs(vs, 1, reg_alloc.mapping, <<>>, 0),
         how |-> reg_alloc.how]

(***************************************************************************)
(* main.rs 517-532                                                         *)
(***************************************************************************)
\* locs.get(&v).unwrap()
Home(locs, v) == IF v \in DOMAIN locs THEN locs[v] ELSE AbortArg("panic")

assign_homes_to_op2(locs, src, dest) ==
    CASE dest.a = "Var" /\ src.a = "Var" ->
            <<Home(locs, dest.name), Home(locs, src.name)>>
      [] dest.a = "Var" /\ src.a # "Var" -> <<Home(locs, dest.name), src>>
      [] dest.a # "Var" /\ src.a = "Var" -> <<dest, Home(locs, src.name)>>
      [] dest.a = "Reg" /\ src.a # "Var" -> <<dest, src>>
      [] OTHER -> <<AbortArg("panic"), src>>

(***************************************************************************)
(* main.rs 537-577                                                         *)
(***************************************************************************)
RECURSIVE assign_homes_to_instrs(_, _)
assign_homes_to_instr(i, locs) ==
    CASE i.op = "IfWithLives" ->
            IF i.cnd.op # "EqP" THEN Abort("panic")
            ELSE LET left == i.cnd.left
                     new_left == IF left.a = "Var" THEN Home(locs, left.name)
                                 ELSE left
                 IN  \* line 550: right is kept as it is
                     If(EqP(new_left, i.cnd.right),
                        assign_homes_to_instrs(i.thn, locs),
                        assign_homes_to_instrs(i.els, locs))
      [] i.op = "Mov" ->
            LET h == assign_homes_to_op2(locs, i.src, i.dst)
            IN  Mov(h[1], h[2])
      [] i.op = "Add" ->
            LET h == assign_homes_to_op2(locs, i.src, i.dst)
            IN  Add(h[1], h[2])
      [] i.op = "Call" -> i
      [] OTHER -> Abort("panic")

assign_homes_to_instrs(instrs, locs) ==
    [k \in 1..Len(instrs) |-> assign_homes_to_instr(instrs[k], locs)]

(***************************************************************************)
(* main.rs 607-626                                                         *)
(***************************************************************************)
assign_homes_define(d) ==
    IF d.op # "DefineWithLives" THEN Abort("panic")
    ELSE LET l == decide_locs(d.vars, d.instrs, d.live_sets)
         IN  IF l.how # "" THEN Abort(l.how)
             ELSE Define(d.name, d.vars, assign_homes_to_instrs(d.instrs, l.locs))

assign_homes(p) ==
    CASE p.op = "DefineWithLives" -> assign_homes_define(p)
      [] p.op = "ProgWithLives" ->
            LET l == decide_locs(p.vars, p.instrs, p.live_sets)
            IN  IF l.how # "" THEN Abort(l.how)
                ELSE Prog([k \in 1..Len(p.defs) |-> assign_homes_define(p.defs[k])],
                          assign_homes_to_instrs(p.instrs, l.locs),
                          p.vars)
      [] OTHER -> Abort("panic")

(***************************************************************************)
(* main.rs 628-668.  The counter of get_unique_varname is threaded through: *)
(* a result is [instrs, ctr].                                              *)
(***************************************************************************)
Lowered(instrs, ctr) == [instrs |-> instrs, ctr |-> ctr]

\* a lower_if that lowers the outermost If only: the branches are copied as
\* they are
lower_if_outermost(instr, ctr) ==
    IF instr.op # "If" THEN Lowered(<<instr>>, ctr)
    ELSE IF instr.cnd.op # "EqP" THEN Lowered(<<Abort("panic")>>, ctr)
    ELSE LET thn_label == get_unique_varname(THEN_, ctr)
             end_label == get_unique_varname(ENDIF, ctr + 1)
         IN  Lowered(<<Cmp(instr.cnd.right, instr.cnd.left),
                       JmpIf("e", thn_label)>>
                     \o instr.els
                     \o <<Jmp(end_label), Label(thn_label)>>
                     \o instr.thn
                     \o <<Label(end_label)>>,
                     ctr + 2)

RECURSIVE lower_if(_, _)
RECURSIVE LowerAll(_, _, _)
\* lower_if over instrs[i..], in order
LowerAll(instrs, i, ctr) ==
    IF i > Len(instrs) THEN Lowered(<<>>, ctr)
    ELSE LET head == lower_if(instrs[i], ctr)
             rest == LowerAll(instrs, i + 1, head.ctr)
         IN  Lowered(head.instrs \o rest.instrs, rest.ctr)

\* a lower_if that compares the operands of the condition in their order
lower_if_cmp_in_order(instr, ctr) ==
    IF instr.op # "If" THEN Lowered(<<instr>>, ctr)
    ELSE IF instr.cnd.op # "EqP" THEN Lowered(<<Abort("panic")>>, ctr)
    ELSE LET thn_label == get_unique_varname(THEN_, ctr)
             end_label == get_unique_varname(ENDIF, ctr + 1)
             new_elss == LowerAll(instr.els, 1, ctr + 2)
             new_thns == LowerAll(instr.thn, 1, new_elss.ctr)
         IN  Lowered(<<Cmp(instr.cnd.left, instr.cnd.right),
                       JmpIf("e", thn_label)>>
                     \o new_elss.instrs
                     \o <<Jmp(end_label), Label(thn_label)>>
                     \o new_thns.instrs
                     \o <<Label(end_label)>>,
                     new_thns.ctr)

lower_if(instr, ctr) ==
    IF instr.op # "If" THEN Lowered(<<instr>>, ctr)
    ELSE IF instr.cnd.op # "EqP" THEN Lowered(<<Abort("panic")>>, ctr)
    ELSE LET thn_label == get_unique_varname(THEN_, ctr)
             end_label == get_unique_varname(ENDIF, ctr + 1)
             new_elss == LowerAll(instr.els, 1, ctr + 2)
             new_thns == LowerAll(instr.thn, 1, new_elss.ctr)
         IN  Lowered(<<Cmp(instr.cnd.right, instr.cnd.left),
                       JmpIf("e", thn_label)>>
                     \o new_elss.instrs
                     \o <<Jmp(end_label), Label(thn_label)>>
                     \o new_thns.instrs
                     \o <<Label(end_label)>>,
                     new_thns.ctr)

(***************************************************************************)
(* main.rs 670-685: a result is [prog, ctr]                                *)
(***************************************************************************)
RECURSIVE LowerDefs(_, _, _)
LowerDefs(defs, i, ctr) ==
    IF i > Len(defs) THEN Lowered(<<>>, ctr)
    ELSE LET d == defs[i]
             head == IF d.op # "Define" THEN Lowered(<<Abort("panic")>>, ctr)
                     ELSE LowerAll(d.instrs, 1, ctr)
             rest == LowerDefs(defs, i + 1, head.ctr)
         IN  Lowered(<<IF d.op # "Define" THEN Abort("panic")
                       ELSE Define(d.name, d.vars, head.instrs)>>
                     \o rest.instrs,
                     rest.ctr)

lower_conditionals(p, ctr) ==
    CASE p.op = "Define" ->
            LET l == LowerAll(p.instrs, 1, ctr)
            IN  [prog |-> Define(p.name, p.vars, l.instrs), ctr |-> l.ctr]
      [] p.op = "Prog" ->
            LET l == LowerAll(p.instrs, 1, ctr)
                ds == LowerDefs(p.defs, 1, l.ctr)
            IN  [prog |-> Prog(ds.instrs, l.instrs, p.vars), ctr |-> ds.ctr]
      [] OTHER -> [prog |-> Abort("panic"), ctr |-> ctr]

(***************************************************************************)
(* main.rs 687-714                                                         *)
(***************************************************************************)
IsRbpOffset(x) == x.a = "RegOffset" /\ x.r = "rbp"

\* patch_single_instr without its first arm: a Mov between two stack slots
\* is left as it is
patch_single_instr_keeping_mov(instr) ==
    CASE instr.op = "Add" /\ IsRbpOffset(instr.dst) /\ IsRbpOffset(instr.src) ->
            <<Mov(Reg("rax"), RegOffset("rbp", instr.dst.off)),
              Add(Reg("rax"), RegOffset("rbp", instr.src.off)),
              Mov(RegOffset("rbp", instr.dst.off), Reg("rax"))>>
      [] instr.op = "Cmp" /\ instr.left.a = "Imm" ->
            <<Mov(Reg("rax"), Imm(instr.left.n)),
              Cmp(Reg("rax"), instr.right)>>
      [] OTHER -> <<instr>>

patch_single_instr(instr) ==
    CASE instr.op = "Mov" /\ IsRbpOffset(instr.dst) /\ IsRbpOffset(instr.src) ->
            <<Mov(Reg("rax"), RegOffset("rbp", instr.src.off)),
              Mov(RegOffset("rbp", instr.dst.off), Reg("rax"))>>
      [] instr.op = "Add" /\ IsRbpOffset(instr.dst) /\ IsRbpOffset(instr.src) ->
            <<Mov(Reg("rax"), RegOffset("rbp", instr.dst.off)),
              Add(Reg("rax"), RegOffset("rbp", instr.src.off)),
              Mov(RegOffset("rbp", instr.dst.off), Reg("rax"))>>
      [] instr.op = "Cmp" /\ instr.left.a = "Imm" ->
            <<Mov(Reg("rax"), Imm(instr.left.n)),
              Cmp(Reg("rax"), instr.right)>>
      [] OTHER -> <<instr>>

(***************************************************************************)
(* main.rs 716-734                                                         *)
(***************************************************************************)
PatchAll(instrs) ==
    Concat([k \in 1..Len(instrs) |-> patch_single_instr(instrs[k])])

patch_instructions_define(d) ==
    IF d.op # "Define" THEN Abort("panic")
    ELSE Define(d.name, d.vars, PatchAll(d.instrs))

patch_instructions(p) ==
    CASE p.op = "Define" -> patch_instructions_define(p)
      [] p.op = "Prog" ->
            Prog([k \in 1..Len(p.defs) |-> patch_instructions_define(p.defs[k])],
                 PatchAll(p.instrs), p.vars)
      [] OTHER -> Abort("panic")

(***************************************************************************)
(* main.rs 737-801.  The emitted text is modelled line by line: a line is  *)
(* the instruction it spells, with operands that print_x86_arg accepts.    *)
(***************************************************************************)
Push(r) == [op |-> "Push", r |-> r]
Pop(r) == [op |-> "Pop", r |-> r]
Ret == [op |-> "Ret"]
Directive(text) == [op |-> "Directive", text |-> text]

print_x86_arg(arg) ==
    IF arg.a \in {"Reg", "Imm", "RegOffset"} THEN arg ELSE AbortArg("panic")

print_instr(instr) ==
    CASE instr.op \in {"Mov", "Add"} ->
            [op |-> instr.op, dst |-> print_x86_arg(instr.dst),
             src |-> print_x86_arg(instr.src)]
      [] instr.op = "Cmp" ->
            Cmp(print_x86_arg(instr.left), print_x86_arg(instr.right))
      [] instr.op \in {"JmpIf", "Jmp", "Label", "Call"} -> instr
      [] OTHER -> Abort("panic")

(***************************************************************************)
(* main.rs 803-870                                                         *)
(***************************************************************************)
MAIN == <<"m", "a", "i", "n">>
PRINT_INT == <<"p", "r", "i", "n", "t", "_", "i", "n", "t">>

save_callee_save_regs ==
    [k \in 1..Len(callee_save_regs) |-> Push(callee_save_regs[k])]

restore_callee_save_regs ==
    [k \in 1..Len(callee_save_regs) |->
        Pop(callee_save_regs[Len(callee_save_regs) + 1 - k])]

\* lines 816-838: the lines of one define; the last one, ret, has no newline
print_x86_define(d) ==
    IF d.op # "Define" THEN <<Abort("panic")>>
    ELSE <<Label(d.name), Push("rbp"), Mov(Reg("rbp"), Reg("rsp"))>>
         \o save_callee_save_regs
         \o [k \in 1..Len(d.instrs) |-> print_instr(d.instrs[k])]
         \o <<Mov(Reg("rdi"), Reg("rax")), Add(Reg("rsp"), Imm(0))>>
         \o restore_callee_save_regs
         \o <<Mov(Reg("rsp"), Reg("rbp")), Pop("rbp"), Ret>>

RECURSIVE Glue(_)
\* lines 840-843: the texts of the defines are appended to one another, so the
\* "ret" that ends one and the "name:" that starts the next are one line,
\* which an assembler reads as the label retname
Glue(texts) ==
    IF Len(texts) <= 1 THEN Concat(texts)
    ELSE LET first == texts[1]
             second == texts[2]
         IN  IF first[Len(first)] = Ret /\ second[1].op = "Label"
             THEN SubSeq(first, 1, Len(first) - 1)
                  \o Glue(<<<<Label(<<"r", "e", "t">> \o second[1].label)>>
                            \o Tail(second)>>
                          \o SubSeq(texts, 3, Len(texts)))
             ELSE first \o Glue(Tail(texts))

print_x86(p) ==
    CASE p.op = "Define" -> print_x86_define(p)
      [] p.op = "Prog" ->
            <<Directive("section .text"), Directive("extern print_int"),
              Directive("global main"),
              Label(MAIN), Push("rbp"), Mov(Reg("rbp"), Reg("rsp"))>>
            \o save_callee_save_regs
            \o [k \in 1..Len(p.instrs) |-> print_instr(p.instrs[k])]
            \o <<Mov(Reg("rdi"), Reg("rax")), Call(PRINT_INT)>>
            \o restore_callee_save_regs
            \o <<Mov(Reg("rsp"), Reg("rbp")), Pop("rbp"), Ret>>
            \o Glue([k \in 1..Len(p.defs) |-> print_x86_define(p.defs[k])])
      [] OTHER -> <<Abort("panic")>>

\* the defines are printed before main's instructions (lines 840-843, 859)
PrintAbort(p, text) ==
    IF p.op = "Prog"
    THEN First([k \in 1..Len(p.defs) |-> InstrsAbort(print_x86_define(p.defs[k]))]
               \o <<InstrsAbort(text)>>)
    ELSE InstrsAbort(text)

(***************************************************************************)
(* read_input, main.rs 905-914: the passes from select_instructions on.    *)
(* Each action is one call of the driver; a call that does not return ends *)
(* the process there.                                                      *)
(***************************************************************************)
\* a panic ends the process with status 101, process::exit(0) with 0
ExitStatus(how) == IF how = "exit0" THEN 0 ELSE 101

\* the process ended inside the step `step`
Die(step, how) ==
    /\ pc' = "exited"
    /\ aborted' = step
    /\ status' = ExitStatus(how)
    /\ stdout' = IF how = "print" THEN Append(stdout, [kind |-> "debug"])
                 ELSE stdout
    /\ prog' = Abort(how)

\* the step returned `result` and the driver goes on to `next`
Pass(step, result, how, next, ctr) ==
    /\ pc = step
    /\ counter' = ctr
    /\ IF how = ""
       THEN /\ pc' = next
            /\ prog' = result
            /\ UNCHANGED <<stdout, status, aborted>>
       ELSE Die(step, how)
    /\ UNCHANGED <<ivars, mvars, avars>>

\* lines 879-881 and 917-919: try! returns the Err to main, which drops it
ReturnErr(step) ==
    /\ pc = step
    /\ pc' = "exited"
    /\ aborted' = step
    /\ status' = 0
    /\ UNCHANGED <<ivars, prog, counter, stdout, mvars, avars>>

\* lines 874-877
CheckArgs ==
    Pass("args", prog, IF argv < 2 THEN "panic" ELSE "", "open", counter)

\* line 879
OpenFile ==
    IF file = "absent" THEN ReturnErr("open")
    ELSE Pass("open", prog, "", "read_to_string", counter)

\* lines 880-881
ReadToString ==
    IF file = "unreadable" THEN ReturnErr("read_to_string")
    ELSE Pass("read_to_string", prog, "", "read", counter)

\* lines 883-897: the forms of the text, as parser::read returns them
ReadForms == Pass("read", source, "", "uniquify", counter)

\* lines 899-901; toplevel.len() - 1 of an empty Vec does not index it
Uniquify ==
    LET n == Len(prog)
        r == uniquify(<<>>, counter,
                      SExprProg(SubSeq(prog, 1, n - 1), prog[n]))
    IN  IF pc = "uniquify" /\ n = 0
        THEN Pass("uniquify", prog, "panic", "flatten", counter)
        ELSE Pass("uniquify", r.expr, r.how, "flatten", r.ctr)

\* line 902
Flatten ==
    LET r == flatten(prog, counter)
    IN  Pass("flatten", r.res, r.how, "select_instructions", r.ctr)

SelectInstructions ==
    LET r == select_instructions(prog)
    IN  Pass("select_instructions", r, ProgAbort(r), "uncover_live", counter)

UncoverLive ==
    LET r == uncover_live(prog)
    IN  Pass("uncover_live", r, ProgAbort(r), "assign_homes", counter)

AssignHomes ==
    LET r == assign_homes(prog)
    IN  Pass("assign_homes", r, ProgAbort(r), "lower_conditionals", counter)

LowerConditionals ==
    LET r == lower_conditionals(prog, counter)
    IN  Pass("lower_conditionals", r.prog, ProgAbort(r.prog),
             "patch_instructions", r.ctr)

PatchInstructions ==
    LET r == patch_instructions(prog)
    IN  Pass("patch_instructions", r, ProgAbort(r), "print_x86", counter)

\* lines 912-914 and 917-919: println!, Ok(()), and main returns
PrintX86 ==
    /\ pc = "print_x86"
    /\ LET t == print_x86(prog)
           how == PrintAbort(prog, t)
       IN  IF how = ""
           THEN /\ pc' = "exited"
                /\ stdout' = Append(stdout, [kind |-> "assembly", text |-> t])
                /\ status' = 0
                /\ UNCHANGED <<prog, aborted>>
           ELSE Die("print_x86", how)
    /\ UNCHANGED <<ivars, counter, mvars, avars>>

(***************************************************************************)
(* The machine: the x86-64 instructions print_x86 emits, on a register     *)
(* file and a stack of 64-bit words.  main is entered as the C runtime     *)
(* enters it: [rsp] holds the return address, here -1.  A word that was    *)
(* never written reads as any of JunkWords.  print_int is the external     *)
(* runtime function; it keeps to the System V ABI.                         *)
(***************************************************************************)
AllRegs == {"rax", "rbx", "rbp", "rsp", "rcx", "rdx", "rdi", "rsi",
            "r8", "r9", "r10", "r11", "r12", "r13", "r14", "r15"}

JunkWords == {0, 9}

EntryRegs ==
    [r \in AllRegs |->
        CASE r = "rsp" -> 0
          [] r = "rbp" -> 1000
          [] r = "rbx" -> 101
          [] r = "r12" -> 102
          [] r = "r13" -> 103
          [] r = "r14" -> 104
          [] OTHER -> 0]

CalleeSaved(rf) == [k \in 1..Len(callee_save_regs) |-> rf[callee_save_regs[k]]]

Machine(m_mach, m_ip, m_reg, m_mem, m_zf, m_frames, m_printed) ==
    [mach |-> m_mach, ip |-> m_ip, reg |-> m_reg, mem |-> m_mem, zf |-> m_zf,
     frames |-> m_frames, printed |-> m_printed]

Load(m, addr, junk) == IF addr \in DOMAIN m.mem THEN m.mem[addr] ELSE junk

Store(m, addr, word) ==
    [a \in DOMAIN m.mem \cup {addr} |-> IF a = addr THEN word ELSE m.mem[a]]

Val(m, x, junk) ==
    CASE x.a = "Imm" -> x.n
      [] x.a = "Reg" -> m.reg[x.r]
      [] x.a = "RegOffset" -> Load(m, m.reg[x.r] + x.off, junk)

\* m after `word` is written to operand x and the line is left
Write(m, x, word) ==
    IF x.a = "Reg"
    THEN [m EXCEPT !.reg = [m.reg EXCEPT ![x.r] = word], !.ip = m.ip + 1]
    ELSE IF x.a = "RegOffset"
    THEN [m EXCEPT !.mem = Store(m, m.reg[x.r] + x.off, word), !.ip = m.ip + 1]
    ELSE [m EXCEPT !.mach = "fault"]

LabelIndex(lines, l) ==
    IF \E k \in 1..Len(lines) : lines[k] = Label(l)
    THEN CHOOSE k \in 1..Len(lines) :
             lines[k] = Label(l) /\ \A j \in 1..(k - 1) : lines[j] # Label(l)
    ELSE 0

Goto(m, lines, l) ==
    IF LabelIndex(lines, l) = 0 THEN [m EXCEPT !.mach = "fault"]
    ELSE [m EXCEPT !.ip = LabelIndex(lines, l)]

Exec(m, lines, junk) ==
    LET i == lines[m.ip]
    IN  CASE i.op \in {"Directive", "Label"} -> [m EXCEPT !.ip = m.ip + 1]
          [] i.op = "Push" ->
                [m EXCEPT !.reg = [m.reg EXCEPT !["rsp"] = m.reg["rsp"] - 8],
                          !.mem = Store(m, m.reg["rsp"] - 8, m.reg[i.r]),
                          !.ip = m.ip + 1]
          [] i.op = "Pop" ->
                [m EXCEPT !.reg = [m.reg EXCEPT
                                      ![i.r] = Load(m, m.reg["rsp"], junk),
                                      !["rsp"] = IF i.r = "rsp"
                                                 THEN Load(m, m.reg["rsp"], junk)
                                                 ELSE m.reg["rsp"] + 8],
                          !.ip = m.ip + 1]
          [] i.op = "Mov" -> Write(m, i.dst, Val(m, i.src, junk))
          [] i.op = "Add" ->
                Write(m, i.dst, Val(m, i.dst, junk) + Val(m, i.src, junk))
          [] i.op = "Cmp" ->
                [m EXCEPT !.zf = (Val(m, i.left, junk) = Val(m, i.right, junk)),
                          !.ip = m.ip + 1]
          [] i.op = "JmpIf" ->
                IF m.zf THEN Goto(m, lines, i.label)
                ELSE [m EXCEPT !.ip = m.ip + 1]
          [] i.op = "Jmp" -> Goto(m, lines, i.label)
          [] i.op = "Call" ->
                IF i.label = PRINT_INT
                THEN [m EXCEPT !.printed = Append(m.printed, m.reg["rdi"]),
                               !.ip = m.ip + 1]
                ELSE IF LabelIndex(lines, i.label) = 0
                THEN [m EXCEPT !.mach = "fault"]
                ELSE [m EXCEPT
                         !.reg = [m.reg EXCEPT !["rsp"] = m.reg["rsp"] - 8],
                         !.mem = Store(m, m.reg["rsp"] - 8, m.ip + 1),
                         !.frames = <<CalleeSaved(m.reg)>> \o m.frames,
                         !.ip = LabelIndex(lines, i.label)]
          [] i.op = "Ret" ->
                LET to == Load(m, m.reg["rsp"], junk)
                    popped == [m EXCEPT
                                  !.reg = [m.reg EXCEPT
                                              !["rsp"] = m.reg["rsp"] + 8],
                                  !.frames = Tail(m.frames)]
                IN  IF to = -1 THEN [popped EXCEPT !.mach = "done"]
                    ELSE IF to \in 1..Len(lines) /\ Len(m.frames) > 1
                    THEN [popped EXCEPT !.ip = to]
                    ELSE [popped EXCEPT !.mach = "fault"]
          [] OTHER -> [m EXCEPT !.mach = "fault"]

Current == Machine(mach, ip, reg, mem, zf, frames, printed)

Becomes(m) ==
    /\ mach' = m.mach
    /\ ip' = m.ip
    /\ reg' = m.reg
    /\ mem' = m.mem
    /\ zf' = m.zf
    /\ frames' = m.frames
    /\ printed' = m.printed

\* the emitted text is assembled, linked with the runtime, and main is called
Run ==
    /\ pc = "exited"
    /\ status = 0
    /\ mach = "idle"
    /\ stdout # <<>>
    /\ stdout[Len(stdout)].kind = "assembly"
    /\ asm' = stdout[Len(stdout)].text
    /\ Becomes(Machine("running", LabelIndex(stdout[Len(stdout)].text, MAIN),
                       EntryRegs, [a \in {0} |-> -1], FALSE,
                       <<CalleeSaved(EntryRegs)>>, <<>>))
    /\ steps' = 0
    /\ UNCHANGED <<cvars, avars>>

\* one instruction
Step ==
    /\ mach = "running"
    /\ steps < MaxSteps
    /\ \E junk \in JunkWords :
          IF ip \in 1..Len(asm)
          THEN Becomes(Exec(Current, asm, junk))
          ELSE Becomes([Current EXCEPT !.mach = "fault"])
    /\ steps' = steps + 1
    /\ UNCHANGED <<asm, cvars, avars>>

(***************************************************************************)
(* The Flat programs the back end is run on: what select_instructions      *)
(* matches on (main.rs 168-305).  Statement i of a body assigns the i-th   *)
(* of the body's names, from the names assigned before it, so that every   *)
(* variable is assigned before it is read.  The names are "a", "b", ...    *)
(* rotated, so that the order of the names need not be the order of the    *)
(* assignments.                                                            *)
(***************************************************************************)
\* "a", "b", ... for the variables a body assigns
TempName(i) == <<Alphabet[14 + i]>>
\* "u", "v", ... for the parameters of a define
ParamName(i) == <<Alphabet[34 + i]>>
FNAME == <<"f">>

\* the name statement i of a body of k statements assigns
Dest(i, k, shift) == TempName(((i - 1 + shift) % k) + 1)

Dests(k, shift) == [i \in 1..k |-> Dest(i, k, shift)]

Atoms(scope) == {Sym(v) : v \in scope} \cup {Num(1)}

\* the statements that copy an atom to d
Copies(scope, d) == {Assign(d, a) : a \in Atoms(scope)}

\* d := x + y
Sums(scope, d) ==
    {Assign(d, Prim(PLUS, <<a, b>>)) :
        a \in IF scope = {} THEN {Num(1)} ELSE {Sym(v) : v \in scope},
        b \in {Sym(v) : v \in scope} \cup {Num(2)}}

\* an if that assigns d in both branches
Ifs(scope, d) ==
    {FIf(FEqP(a, b), <<Assign(d, Num(1))>>, <<Assign(d, Num(2))>>) :
        a \in Atoms(scope), b \in Atoms(scope)}

\* the statements that assign d from the variables in scope
Stmts(scope, d) == Copies(scope, d) \cup Sums(scope, d) \cup Ifs(scope, d)

RECURSIVE Bodies(_, _, _, _, _)
\* the statements i..k of the bodies of k statements; a plain body is copies
\* and then one copy or sum
Bodies(i, k, scope, shift, plain) ==
    IF i > k THEN {<<>>}
    ELSE {<<s>> \o rest :
             s \in IF ~plain THEN Stmts(scope, Dest(i, k, shift))
                   ELSE IF i < k THEN Copies(scope, Dest(i, k, shift))
                   ELSE Copies(scope, Dest(i, k, shift))
                            \cup Sums(scope, Dest(i, k, shift)),
             rest \in Bodies(i + 1, k, scope \cup {Dest(i, k, shift)},
                             shift, plain)}

\* what a body may return: a variable, a literal, a function's name
Returns(scope) == {Return(a) : a \in Atoms(scope) \cup {FuncName(FNAME)}}

\* main alone: up to MaxStmts statements of any kind, or a plain body of
\* MaxStmts + 1
MainPrograms ==
    UNION {
        {FlatProg(<<>>, body \o <<r>>, Dests(k, shift)) :
            body \in Bodies(1, k, {}, shift, k > MaxStmts),
            r \in Returns(Range(Dests(k, shift)))} :
        k \in 0..(MaxStmts + 1), shift \in 0..MaxStmts}

Params(n) == [i \in 1..n |-> ParamName(i)]

\* a main that calls f with n arguments
Caller(n) ==
    <<Assign(<<"a">>, Num(1)),
      Assign(<<"r">>, FApp(FNAME, [i \in 1..n |-> Sym(<<"a">>)])),
      Return(Sym(<<"r">>))>>

\* one define of up to MaxParams parameters and a body of up to one statement,
\* and the main that calls it
DefinePrograms ==
    UNION {
        {FlatProg(<<FlatDefine(FNAME, Params(n), body \o <<r>>, Dests(k, 0))>>,
                  Caller(n), <<<<"a">>, <<"r">>>>) :
            body \in Bodies(1, k, Range(Params(n)), 0, FALSE),
            r \in Returns(Range(Params(n)) \cup Range(Dests(k, 0)))} :
        n \in 1..MaxParams, k \in 0..1}

\* the conditions of the nested ifs: one of literals, one that reads a
Conds == {FEqP(Num(1), Num(1)), FEqP(Sym(TempName(1)), Num(2))}

RECURSIVE IfTrees(_)
\* the statement lists that assign b: an assignment, or an if whose branches
\* are such lists, nested up to depth deep
IfTrees(depth) ==
    IF depth = 0
    THEN {<<Assign(TempName(2), Num(1))>>,
          <<Assign(TempName(2), Sym(TempName(1)))>>}
    ELSE IfTrees(depth - 1)
         \cup {<<FIf(c, t, e)>> :
                  c \in Conds, t \in IfTrees(depth - 1), e \in IfTrees(depth - 1)}

\* a := 1; ifs nested up to MaxDepth that assign b; return b
NestedIfBodies ==
    {<<Assign(TempName(1), Num(1))>> \o t \o <<Return(Sym(TempName(2)))>> :
        t \in IfTrees(MaxDepth)}

\* the nested ifs in main, and in a define that main calls
NestedIfPrograms ==
    {FlatProg(<<>>, body, Dests(2, 0)) : body \in NestedIfBodies}
    \cup {FlatProg(<<FlatDefine(FNAME, Params(1), body, Dests(2, 0))>>,
                   Caller(1), <<<<"a">>, <<"r">>>>) : body \in NestedIfBodies}

\* "p1", "p2", ... for the parameters of a define of many parameters
WideParams(n) == [i \in 1..n |-> <<"p">> \o Decimal(i)]

\* a define of n parameters and a main that calls it with m arguments, for n
\* and m around the number of argument registers
WidePrograms ==
    {FlatProg(<<FlatDefine(FNAME, WideParams(n), <<Return(Num(1))>>, <<>>)>>,
              Caller(m), <<<<"a">>, <<"r">>>>) :
        n \in (MaxWide - 2)..MaxWide, m \in (MaxWide - 2)..MaxWide}

\* the branches of an if that assigns b in one statement or in two
Branches ==
    IfTrees(0) \cup {<<Assign(TempName(2), Num(1)),
                       Assign(TempName(2), Sym(TempName(1)))>>}

\* a := 1; an if whose branches differ in length; return b
LongBranchPrograms ==
    {FlatProg(<<>>,
              <<Assign(TempName(1), Num(1)), FIf(c, t, e),
                Return(Sym(TempName(2)))>>,
              Dests(2, 0)) :
        c \in Conds, t \in Branches, e \in Branches}

\* a main that calls f and reads a variable assigned before the call after
\* it, and the define f that returns its parameter
CallThenUsePrograms ==
    {FlatProg(<<FlatDefine(FNAME, Params(1), <<Return(Sym(ParamName(1)))>>,
                           <<>>)>>,
              <<Assign(<<"a">>, Num(1)),
                Assign(<<"r">>, FApp(FNAME, <<Sym(<<"a">>)>>))>> \o rest,
              <<<<"a">>, <<"r">>>>) :
        rest \in {<<Return(Sym(<<"a">>))>>,
                  <<Return(Sym(<<"r">>))>>,
                  <<Assign(<<"r">>, Prim(PLUS, <<Sym(<<"r">>), Sym(<<"a">>)>>)),
                    Return(Sym(<<"r">>))>>}}

FlatPrograms ==
    MainPrograms \cup DefinePrograms \cup NestedIfPrograms \cup WidePrograms
    \cup LongBranchPrograms \cup CallThenUsePrograms

(***************************************************************************)
(* The source programs a run is given: the forms parser::read returns for  *)
(* the text of the file.  An expression is an atom, a form over atoms, or  *)
(* a form one of whose operands is a form over atoms.                      *)
(***************************************************************************)
X == <<"x">>
GNAME == <<"g">>

SAtoms == {SExprNumber(1), SExprBool(TRUE), SExprSymbol(X)}
SmallAtoms == {SExprNumber(1), SExprSymbol(X)}

\* the argument lists of up to MaxArgs operands from C
SArgs(C) == UNION {[1..k -> C] : k \in 0..MaxArgs}

\* the forms uniquify has arms for (main.rs 104-146), over the operands C
Forms(C) ==
    {SExprApp(SExprSymbol(op), <<a, b>>) : op \in {PLUS, EQ}, a \in C, b \in C}
    \cup {SExprApp(SExprSymbol(MINUS), <<a>>) : a \in C}
    \cup {SExprLet(<<<<X, a>>>>, b) : a \in C, b \in C}
    \cup {SExprIf(a, b, c) : a \in C, b \in C, c \in C}
    \cup {SExprApp(SExprSymbol(FNAME), args) : args \in SArgs(C)}

\* the forms only flatten has arms for (anf.rs 50-357), over the operands C
AnfForms(C) ==
    {SExprCmp("e", a, b) : a \in C, b \in C}
    \cup {SExprTuple(args) : args \in SArgs(C)}
    \cup {SExprApp(SExprApp(SExprSymbol(FNAME), <<>>), args) :
             args \in SArgs(C)}
    \cup {SExprApp(SExprSymbol(TUPLE_REF), <<a, b>>) : a \in C, b \in C}
    \cup {SExprFuncName(FNAME), SExprLambda(<<>>, SExprNumber(1)),
          SExprList(<<>>), SExprEOF}

\* the forms with one operand from K and the others from A
Nested(K, A) ==
    {SExprApp(SExprSymbol(PLUS), <<k, a>>) : k \in K, a \in A}
    \cup {SExprApp(SExprSymbol(PLUS), <<a, k>>) : k \in K, a \in A}
    \cup {SExprApp(SExprSymbol(MINUS), <<k>>) : k \in K}
    \cup {SExprLet(<<<<X, k>>>>, a) : k \in K, a \in A}
    \cup {SExprLet(<<<<X, a>>>>, k) : k \in K, a \in A}
    \cup {SExprIf(k, a, b) : k \in K, a \in A, b \in A}
    \cup {SExprIf(a, k, b) : k \in K, a \in A, b \in A}
    \cup {SExprApp(SExprSymbol(FNAME), <<k>>) : k \in K}

\* as Nested, for the forms of AnfForms
AnfNested(K, A) ==
    {SExprCmp("e", k, a) : k \in K, a \in A}
    \cup {SExprTuple(<<a, k>>) : k \in K, a \in A}
    \cup {SExprApp(SExprApp(SExprSymbol(FNAME), <<>>), <<k>>) : k \in K}
    \cup {SExprApp(SExprSymbol(TUPLE_REF), <<k, SExprNumber(0)>>) : k \in K}

\* the expressions made of the forms uniquify has arms for
UExprs == SAtoms \cup Forms(SAtoms) \cup Nested(Forms(SmallAtoms), SAtoms)

\* the expressions flatten is given
AExprs ==
    UExprs
    \cup AnfForms(SAtoms)
    \cup Nested(AnfForms(SmallAtoms), SAtoms)
    \cup AnfNested(Forms(SmallAtoms) \cup AnfForms(SmallAtoms), SAtoms)

DefBodies(n) ==
    {SExprNumber(1), SExprLet(<<<<X, SExprNumber(1)>>>>, SExprSymbol(X))}
    \cup IF n = 0 THEN {}
         ELSE {SExprSymbol(ParamName(1)),
               SExprApp(SExprSymbol(PLUS),
                        <<SExprSymbol(ParamName(1)), SExprNumber(1)>>)}

\* (define (name u v ..) body)
Defines(name) ==
    UNION {{SExprDefine(name, Params(n), b) : b \in DefBodies(n)} :
              n \in 0..MaxParams}

\* what follows the define d: a call of it with literal arguments, or a literal
Calls(d) ==
    {SExprApp(SExprSymbol(d.name), [i \in 1..Len(d.args) |-> SExprNumber(i)]),
     SExprNumber(1)}

\* no, one or two defines and then an expression; one define alone; two
\* expressions
WithDefines ==
    {<<d>> : d \in Defines(FNAME)}
    \cup UNION {{<<d, e>> : e \in Calls(d)} : d \in Defines(FNAME)}
    \cup UNION {{<<d, g, e>> : e \in Calls(g)} :
                   d \in Defines(FNAME), g \in Defines(GNAME)}
    \cup {<<SExprNumber(1), e>> : e \in SAtoms}

\* the forms of a file
TopLevels == {<<>>} \cup {<<e>> : e \in UExprs} \cup WithDefines

\* the forms flatten is called on, as the Prog of lines 899-901
FlattenInputs == {<<e>> : e \in AExprs} \cup WithDefines

(***************************************************************************)
(* Specifications.                                                         *)
(***************************************************************************)
IdleMachine ==
    /\ mach = "idle"
    /\ asm = <<>>
    /\ ip = 0
    /\ reg = EntryRegs
    /\ mem = <<>>
    /\ zf = FALSE
    /\ frames = <<>>
    /\ printed = <<>>
    /\ steps = 0

IdleAllocator ==
    /\ live_intervals_vec = <<>>
    /\ next_interval = 0
    /\ alloc = AllocInit

\* the back end, started on a Flat program (read_input from line 905 on)
Init ==
    /\ argv = 2
    /\ file = "text"
    /\ source \in FlatPrograms
    /\ prog = source
    /\ pc = "select_instructions"
    /\ counter = 0
    /\ stdout = <<>>
    /\ status = -1
    /\ aborted = ""
    /\ IdleMachine
    /\ IdleAllocator

Next ==
    \/ SelectInstructions
    \/ UncoverLive
    \/ AssignHomes
    \/ LowerConditionals
    \/ PatchInstructions
    \/ PrintX86
    \/ Run
    \/ Step

Spec == Init /\ [][Next]_vars

(***************************************************************************)
(* allocate_registers on its own (main.rs 478-515), called with any map of *)
(* up to MaxIntervals live intervals whose lines are 0..MaxLine.  source   *)
(* is the map; the loop of lines 490-513 is run one interval at a time.    *)
(***************************************************************************)
\* (start, end) as compute_live_intervals makes them: 0 <= start < end
Spans == {x \in (0..MaxLine) \X (1..MaxLine) : x[1] < x[2]}

IntervalMaps ==
    UNION {[{TempName(i) : i \in 1..n} -> Spans] : n \in 0..MaxIntervals}

\* lines 480-488: the Vec is built and sorted, the loop's state is set up
SortIntervals ==
    /\ pc = "allocate_registers"
    /\ live_intervals_vec' = sort_by_key(source)
    /\ next_interval' = 1
    /\ alloc' = AllocInit
    /\ pc' = "allocating"
    /\ UNCHANGED <<ivars, prog, counter, stdout, status, aborted, mvars>>

\* lines 490-513: one iteration of the loop
AllocateNext ==
    /\ pc = "allocating"
    /\ next_interval <= Len(live_intervals_vec)
    /\ LET st == AllocStep(alloc, live_intervals_vec[next_interval])
       IN  /\ alloc' = st
           /\ IF st.how = ""
              THEN /\ next_interval' = next_interval + 1
                   /\ UNCHANGED <<pc, status, aborted>>
              ELSE /\ pc' = "exited"
                   /\ status' = ExitStatus(st.how)
                   /\ aborted' = "allocate_registers"
                   /\ UNCHANGED next_interval
    /\ UNCHANGED <<ivars, prog, counter, stdout, live_intervals_vec, mvars>>

\* line 514: return mapping
ReturnMapping ==
    /\ pc = "allocating"
    /\ next_interval > Len(live_intervals_vec)
    /\ pc' = "allocated"
    /\ UNCHANGED <<ivars, prog, counter, stdout, status, aborted, mvars,
                   avars>>

InitAlloc ==
    /\ argv = 2
    /\ file = "text"
    /\ source \in IntervalMaps
    /\ prog = <<>>
    /\ pc = "allocate_registers"
    /\ counter = 0
    /\ stdout = <<>>
    /\ status = -1
    /\ aborted = ""
    /\ IdleMachine
    /\ IdleAllocator

NextAlloc ==
    \/ SortIntervals
    \/ AllocateNext
    \/ ReturnMapping

SpecAlloc == InitAlloc /\ [][NextAlloc]_vars

(***************************************************************************)
(* The compiler from the command line (read_input, main.rs 873-915), and   *)
(* from line 902 on with any SExpr as the value flatten is called on, as   *)
(* anf.rs 361-400 calls it (file = "none").                                *)
(***************************************************************************)
InitSrc ==
    /\ \/ /\ argv \in {1, 2}
          /\ file \in {"absent", "unreadable", "text"}
          /\ source \in IF argv = 2 /\ file = "text" THEN TopLevels ELSE {<<>>}
          /\ pc = "args"
          /\ prog = <<>>
       \/ /\ argv = 2
          /\ file = "none"
          /\ source \in FlattenInputs
          /\ pc = "flatten"
          /\ prog = SExprProg(SubSeq(source, 1, Len(source) - 1),
                              source[Len(source)])
    /\ counter = 0
    /\ stdout = <<>>
    /\ status = -1
    /\ aborted = ""
    /\ IdleMachine
    /\ IdleAllocator

NextSrc ==
    \/ CheckArgs
    \/ OpenFile
    \/ ReadToString
    \/ ReadForms
    \/ Uniquify
    \/ Flatten
    \/ SelectInstructions
    \/ UncoverLive
    \/ AssignHomes
    \/ LowerConditionals
    \/ PatchInstructions
    \/ PrintX86

SpecSrc == InitSrc /\ [][NextSrc]_vars

(***************************************************************************)
(* Properties of the back end, under Spec.                                 *)
(***************************************************************************)
RECURSIVE AnnotatedIn(_, _)
\* the instruction lists of `instrs` with the live sets recorded for them:
\* the list itself and, in it, the branches of every IfWithLives
AnnotatedIn(instrs, live_sets) ==
    {<<instrs, live_sets>>}
    \cup UNION {IF instrs[k].op = "IfWithLives"
                THEN AnnotatedIn(instrs[k].thn, instrs[k].thn_lives)
                     \cup AnnotatedIn(instrs[k].els, instrs[k].els_lives)
                ELSE {} : k \in 1..Len(instrs)}

\* main, each define and each If branch of a ProgWithLives
Annotated(p) ==
    AnnotatedIn(p.instrs, p.live_sets)
    \cup UNION {AnnotatedIn(p.defs[k].instrs, p.defs[k].live_sets) :
                   k \in 1..Len(p.defs)}

\* the variables an instruction reads; an If reads those of its condition
ReadBy(instr) ==
    IF instr.op = "IfWithLives" THEN cond_vars(instr.cnd)
    ELSE instruction_rw(instr).read

\* C2.  Liveness soundness: when uncover_live has returned, in every
\* annotated instruction list (main, each define, each If branch) every
\* variable read by the instruction at a position after the first is in the
\* live set recorded for the instruction before it.
LivenessSoundness ==
    pc = "assign_homes" =>
        \A l \in Annotated(prog) :
            \A i \in 2..Len(l[1]) : ReadBy(l[1][i]) \subseteq l[2][i - 1]

RECURSIVE OperandsOf(_)
\* the operands of an instruction, those of an If's condition and branches
\* included
OperandsOf(i) ==
    CASE i.op \in {"Mov", "Add"} -> {i.dst, i.src}
      [] i.op \in {"Cmp", "EqP"} -> {i.left, i.right}
      [] i.op \in {"If", "IfWithLives"} ->
            OperandsOf(i.cnd)
            \cup UNION {OperandsOf(i.thn[k]) : k \in 1..Len(i.thn)}
            \cup UNION {OperandsOf(i.els[k]) : k \in 1..Len(i.els)}
      [] OTHER -> {}

\* the instruction lists of a Prog: main's and each define's
Lists(p) == {p.instrs} \cup {p.defs[k].instrs : k \in 1..Len(p.defs)}

OperandsIn(p) ==
    UNION {UNION {OperandsOf(l[k]) : k \in 1..Len(l)} : l \in Lists(p)}

\* C3.  Home elimination: when assign_homes has returned, no operand of the
\* program is a Var, the operands of every If's EqP and of the instructions
\* in If branches included.
HomeElimination ==
    pc = "lower_conditionals" => \A x \in OperandsIn(prog) : x.a # "Var"

\* no two memory operands, and no Cmp of an immediate first operand
Encodable(i) ==
    CASE i.op \in {"Mov", "Add"} ->
            ~(i.dst.a = "RegOffset" /\ i.src.a = "RegOffset")
      [] i.op = "Cmp" ->
            /\ ~(i.left.a = "RegOffset" /\ i.right.a = "RegOffset")
            /\ i.left.a # "Imm"
      [] OTHER -> TRUE

\* C4.  Two-memory elimination: when patch_instructions has returned, no
\* Mov, Add or Cmp of main or of a define has two memory operands, and no
\* Cmp has an immediate as its first operand.
TwoMemoryElimination ==
    pc = "print_x86" =>
        \A l \in Lists(prog) : \A k \in 1..Len(l) : Encodable(l[k])

\* what patch_instructions was given in this run
BeforePatch ==
    lower_conditionals(
        assign_homes(uncover_live(select_instructions(source))), 0).prog

\* C4 happening: patch_instructions returned, and it was given a Mov of two
\* memory operands
MovPatched ==
    /\ pc = "print_x86"
    /\ \E l \in Lists(BeforePatch) : \E k \in 1..Len(l) :
          /\ l[k].op = "Mov"
          /\ ~Encodable(l[k])

\* C7.  The emitted code preserves the callee-saved registers: at the ret of
\* main and of every define, rbx, r12, r13 and r14 hold the values they held
\* when the function was entered.
CalleeSavedPreserved ==
    (mach = "running" /\ ip \in 1..Len(asm) /\ asm[ip].op = "Ret")
        => CalleeSaved(reg) = Head(frames)

(***************************************************************************)
(* Properties of allocate_registers, under SpecAlloc.                      *)
(***************************************************************************)
Max(a, b) == IF a > b THEN a ELSE b

\* two intervals share more than an end point
Overlap(x, y) == Max(x[1], y[1]) < Min(x[2], y[2])

\* C1.  Allocator safety: when allocate_registers has returned, no two
\* distinct variables whose intervals overlap are mapped to the same register
\* index.
AllocatorSafety ==
    pc = "allocated" =>
        \A v \in DOMAIN alloc.mapping : \A w \in DOMAIN alloc.mapping :
            (v # w /\ Overlap(source[v], source[w]))
                => alloc.mapping[v] # alloc.mapping[w]

(***************************************************************************)
(* Properties of the front end and of whole runs, under SpecSrc.           *)
(***************************************************************************)
RECURSIVE Compounds(_)
\* the Prim, Cmp, App and Tuple values anywhere in a Flat value
Compounds(f) ==
    CASE f.t \in {"Prim", "App"} ->
            {f} \cup UNION {Compounds(f.args[k]) : k \in 1..Len(f.args)}
      [] f.t = "Tuple" ->
            {f} \cup UNION {Compounds(f.elts[k]) : k \in 1..Len(f.elts)}
      [] f.t = "Cmp" -> {f} \cup Compounds(f.left) \cup Compounds(f.right)
      [] f.t = "Assign" -> Compounds(f.e)
      [] f.t = "Return" -> Compounds(f.v)
      [] f.t = "If" ->
            Compounds(f.cnd)
            \cup UNION {Compounds(f.thn[k]) : k \in 1..Len(f.thn)}
            \cup UNION {Compounds(f.els[k]) : k \in 1..Len(f.els)}
      [] OTHER -> {}

\* the arguments of a Prim, Cmp, App or Tuple
ArgsOf(c) ==
    CASE c.t \in {"Prim", "App"} -> Range(c.args)
      [] c.t = "Tuple" -> Range(c.elts)
      [] c.t = "Cmp" -> {c.left, c.right}

\* the statement lists of a FlatResult::Prog: main's and those of its defs
StatementLists(p) == {p.assigns} \cup {p.defs[k].assigns : k \in 1..Len(p.defs)}

\* C5.  ANF invariant: when flatten has returned, every argument of every
\* Prim, Cmp, App and Tuple in the statements it produced, those nested in If
\* branches included, is a Number, Bool, Symbol or FuncName.
AnfInvariant ==
    pc = "select_instructions" =>
        \A l \in StatementLists(prog) : \A k \in 1..Len(l) :
            \A c \in Compounds(l[k]) : \A a \in ArgsOf(c) :
                a.t \in {"Number", "Bool", "Symbol", "FuncName"}

\* C5 happening: flatten returned statements in which a compound value is
\* assigned to a name, and that name is an argument of a later compound value
CompoundOperandNamed ==
    /\ pc = "select_instructions"
    /\ \E i \in 1..Len(prog.assigns) : \E j \in (i + 1)..Len(prog.assigns) :
          /\ prog.assigns[i].t = "Assign"
          /\ prog.assigns[i].e.t \in {"Prim", "Cmp", "App", "Tuple"}
          /\ prog.assigns[j].t = "Assign"
          /\ prog.assigns[j].e.t \in {"Prim", "Cmp", "App", "Tuple"}
          /\ Sym(prog.assigns[i].dest) \in ArgsOf(prog.assigns[j].e)

RECURSIVE Binders(_)
\* the names bound in an SExpr, one per binding occurrence: the names of Let
\* bindings and the parameters of Defines and Lambdas
Binders(e) ==
    CASE e.s = "Let" ->
            Concat([k \in 1..Len(e.bindings) |->
                       <<e.bindings[k][1]>> \o Binders(e.bindings[k][2])])
            \o Binders(e.body)
      [] e.s = "Define" -> e.args \o Binders(e.val)
      [] e.s = "Lambda" -> e.args \o Binders(e.body)
      [] e.s = "If" -> Binders(e.cnd) \o Binders(e.thn) \o Binders(e.els)
      [] e.s = "Cmp" -> Binders(e.left) \o Binders(e.right)
      [] e.s = "App" ->
            Binders(e.f)
            \o Concat([k \in 1..Len(e.args) |-> Binders(e.args[k])])
      [] e.s \in {"List", "Tuple"} ->
            Concat([k \in 1..Len(e.elts) |-> Binders(e.elts[k])])
      [] e.s = "Prog" ->
            Concat([k \in 1..Len(e.defs) |-> Binders(e.defs[k])])
            \o Binders(e.e)
      [] OTHER -> <<>>

\* C6.  When uniquify has returned, no two binding occurrences of the
\* program, let bindings and function parameters of main and of all defines,
\* have the same name.
UniqueBinders ==
    (pc = "flatten" /\ file = "text") =>
        \A i \in 1..Len(Binders(prog)) : \A j \in 1..Len(Binders(prog)) :
            i # j => Binders(prog)[i] # Binders(prog)[j]

\* the assembly is on stdout
AssemblyWritten == \E k \in 1..Len(stdout) : stdout[k].kind = "assembly"

\* C8.  Every run ends in exactly one of two ways: the assembly is written to
\* stdout, or the process ends with a nonzero status and no assembly is
\* written.
ExitOutcomes ==
    pc = "exited" =>
        \/ status = 0 /\ AssemblyWritten
        \/ status # 0 /\ ~AssemblyWritten

IsSAtom(e) == e.s \in {"Number", "Bool", "Symbol"}

\* one if, whose condition is an = of two atoms and whose branches are atoms
IsIfSeed(forms) ==
    /\ Len(forms) = 1
    /\ forms[1].s = "If"
    /\ \/ /\ forms[1].cnd.s = "Cmp"
          /\ forms[1].cnd.cc = "e"
          /\ IsSAtom(forms[1].cnd.left)
          /\ IsSAtom(forms[1].cnd.right)
       \/ /\ forms[1].cnd.s = "App"
          /\ forms[1].cnd.f = SExprSymbol(EQ)
          /\ Len(forms[1].cnd.args) = 2
          /\ \A k \in 1..2 : IsSAtom(forms[1].cnd.args[k])
    /\ IsSAtom(forms[1].thn)
    /\ IsSAtom(forms[1].els)

\* the number of the instructions of instrs that satisfy Test
CountOf(instrs, Test(_)) == Cardinality({k \in 1..Len(instrs) : Test(instrs[k])})

\* C9.  For a program that is one if over an = of two atoms with atoms as
\* branches, flatten, select_instructions, uncover_live, assign_homes and
\* lower_conditionals complete, and the lowered main has exactly one cmp, one
\* je, one jmp and two labels.
IfSeedLowered ==
    IsIfSeed(source) =>
        /\ aborted \notin {"flatten", "select_instructions", "uncover_live",
                           "assign_homes", "lower_conditionals"}
        /\ pc = "patch_instructions" =>
              /\ CountOf(prog.instrs, LAMBDA i : i.op = "Cmp") = 1
              /\ CountOf(prog.instrs, LAMBDA i : i.op = "JmpIf" /\ i.cc = "e") = 1
              /\ CountOf(prog.instrs, LAMBDA i : i.op = "Jmp") = 1
              /\ CountOf(prog.instrs, LAMBDA i : i.op = "Label") = 2

\* a define, and a call of it by name with as many atoms as it has parameters
IsCallSeed(forms) ==
    /\ Len(forms) = 2
    /\ forms[1].s = "Define"
    /\ forms[2].s = "App"
    /\ forms[2].f = SExprSymbol(forms[1].name)
    /\ Len(forms[2].args) = Len(forms[1].args)
    /\ Len(forms[2].args) <= Len(arg_reg_order)
    /\ \A k \in 1..Len(forms[2].args) : IsSAtom(forms[2].args[k])

\* instrs has, from some position on, the moves of the arguments to
\* arg_reg_order in order, the Call of f, and a Mov of rax to a variable
HasCallSite(instrs, args, f) ==
    \E k \in 0..(Len(instrs) - Len(args) - 2) :
        /\ \A i \in 1..Len(args) :
              instrs[k + i] = Mov(Reg(arg_reg_order[i]),
                                  flat_arg_type(flatten(args[i], 0).res.flat))
        /\ instrs[k + Len(args) + 1] = Call(f)
        /\ instrs[k + Len(args) + 2].op = "Mov"
        /\ instrs[k + Len(args) + 2].dst.a = "Var"
        /\ instrs[k + Len(args) + 2].src = Reg("rax")

\* C10.  For a program that calls a defined function by name with atoms,
\* select_instructions is reached and returns, and main's instructions load
\* the i-th argument into the i-th of rdi, rsi, rdx, rcx, r8, r9, Call the
\* function's label and Mov the result variable from rax.
CallSeedSelected ==
    IsCallSeed(source) =>
        /\ aborted \notin {"flatten", "select_instructions"}
        /\ pc = "uncover_live" =>
              HasCallSite(prog.instrs, source[2].args, source[1].name)

(***************************************************************************)
(* Properties of flatten, under SpecSrc, on the runs that enter at flatten  *)
(* with the counter reset.                                                 *)
(***************************************************************************)
\* flatten was entered on the one expression source[1], and has returned
FlattenReturned ==
    /\ file = "none"
    /\ Len(source) = 1
    /\ pc = "select_instructions"

IsPlus(e) ==
    /\ e.s = "App"
    /\ e.f = SExprSymbol(PLUS)
    /\ Len(e.args) = 2

\* what the claim gives for (+ e1 e2) from the counter ctr: e1's statements,
\* e2's statements, and the Assign of the next temporary
PlusOf(e1, e2, ctr) ==
    LET r1 == flatten(e1, ctr)
        r2 == flatten(e2, r1.ctr)
        temp == get_unique_varname(TMP, r2.ctr)
    IN  Flattened(
            FlatFlat(Sym(temp),
                     r1.res.assigns \o r2.res.assigns
                         \o <<Assign(temp, Prim(PLUS, <<r1.res.flat,
                                                          r2.res.flat>>))>>,
                     r1.res.vars \o r2.res.vars \o <<temp>>),
            r2.ctr + 1, "")

\* (+ 12 (+ 13 14)), anf.rs 368-372
TestSum ==
    SExprApp(SExprSymbol(PLUS),
             <<SExprNumber(12),
               SExprApp(SExprSymbol(PLUS), <<SExprNumber(13), SExprNumber(14)>>)>>)

\* C11.  For an addition (+ e1 e2) on which flatten returns, the program is
\* e1's statements, then e2's, then the Assign of a temporary drawn after
\* all of theirs to Prim(+, [atom1, atom2]), then the Return of that
\* temporary; and (+ 12 (+ 13 14)) from a reset counter gives
\* tmp1 := 13 + 14; tmp2 := 12 + tmp1 with the variables [tmp1, tmp2].
AdditionFlattened ==
    (FlattenReturned /\ IsPlus(source[1])) =>
        LET r == PlusOf(source[1].args[1], source[1].args[2], 0)
            tmp1 == TMP \o <<"1">>
            tmp2 == TMP \o <<"2">>
        IN  /\ prog = FlatProg(<<>>,
                               Append(r.res.assigns, Return(r.res.flat)),
                               Dedup(r.res.vars))
            /\ counter = r.ctr
            /\ flatten(TestSum, 0).res =
                   FlatFlat(Sym(tmp2),
                            <<Assign(tmp1, Prim(PLUS, <<Num(13), Num(14)>>)),
                              Assign(tmp2, Prim(PLUS, <<Num(12), Sym(tmp1)>>))>>,
                            <<tmp1, tmp2>>)

\* C11 happening: flatten returned on an addition with an addition as an
\* operand, whose temporary is the first and the outer one's the second
NestedAdditionFlattened ==
    /\ FlattenReturned
    /\ IsPlus(source[1])
    /\ \E k \in 1..2 : IsPlus(source[1].args[k])
    /\ counter = 2

\* the defines flatten was given, by position: every form but the last
DefinesGiven == {k \in 1..(Len(source) - 1) : source[k].s = "Define"}

\* C12.  When flatten has returned, each Define it was given has become a
\* Define with the same name and parameters, whose statements are the
\* body's statements and then the Return of the body's atom, and whose
\* variables are the body's variables without the parameters, in order.
DefineFlattened ==
    pc = "select_instructions" =>
        \A k \in DefinesGiven :
            \E ctr \in 0..counter :
                LET d == source[k]
                    body == flatten(d.val, ctr)
                    f == prog.defs[k]
                IN  /\ f.t = "FlatDefine"
                    /\ f.name = d.name
                    /\ f.args = d.args
                    /\ f.assigns = Append(body.res.assigns,
                                          Return(body.res.flat))
                    /\ f.assigns[Len(f.assigns)].t = "Return"
                    /\ Range(f.vars) \cap Range(d.args) = {}
                    /\ f.vars = SelectSeq(body.res.vars,
                                          LAMBDA v : v \notin Range(d.args))

\* C12 happening: flatten returned a Define whose body names a parameter
\* and introduces a temporary; the parameter is dropped, the temporary kept
ParameterFiltered ==
    /\ pc = "select_instructions"
    /\ \E k \in DefinesGiven :
          /\ Range(flatten(source[k].val, 0).res.vars)
                 \cap Range(source[k].args) # {}
          /\ prog.defs[k].vars # <<>>

(***************************************************************************)
(* Properties of decide_locs, under Spec.                                  *)
(***************************************************************************)
\* what assign_homes was given in this run
BeforeHomes == uncover_live(select_instructions(source))

\* the functions decide_locs is called on: main and each define
FunctionsHomed == {BeforeHomes} \cup Range(BeforeHomes.defs)

\* the variables of the function f that allocate_registers gave a register
InRegister(f) ==
    DOMAIN allocate_registers(
               compute_live_intervals(f.instrs, f.live_sets, <<>>, 1)).mapping

\* the variables of f's variable list that received no register
Spilled(f) == Range(f.vars) \ InRegister(f)

LocsOf(f) == decide_locs(f.vars, f.instrs, f.live_sets).locs

\* C13.  When assign_homes has returned, in each function every variable of
\* the variable list that received no register has the home [rbp - 8k] with
\* k >= 1, and no two such variables have the same home.
SpillsDistinct ==
    pc = "lower_conditionals" =>
        \A f \in FunctionsHomed :
            /\ \A v \in Spilled(f) :
                  /\ LocsOf(f)[v].a = "RegOffset"
                  /\ LocsOf(f)[v].r = "rbp"
                  /\ \E k \in 1..Len(f.vars) : LocsOf(f)[v].off = (-8) * k
            /\ \A v \in Spilled(f) : \A w \in Spilled(f) :
                  v # w => LocsOf(f)[v] # LocsOf(f)[w]

\* C13 happening: assign_homes returned for a function with two variables
\* that received no register
TwoSpills ==
    /\ pc = "lower_conditionals"
    /\ \E f \in FunctionsHomed : Cardinality(Spilled(f)) >= 2

(***************************************************************************)
(* Properties of uniquify, under SpecSrc, on whole runs.                   *)
(***************************************************************************)
\* the position in env, a sequence of binders with the innermost last, of
\* the binder a reference to name belongs to; 0 when name is free
BinderOf(env, name) ==
    LET at == {k \in 1..Len(env) : env[k] = name}
    IN  IF at = {} THEN 0 ELSE CHOOSE k \in at : \A j \in at : j <= k

RECURSIVE WellFormed(_, _)
\* every reference is in the scope of a binder of its name: a Let binds its
\* names in its body, a Define its parameters in its body
WellFormed(e, env) ==
    CASE e.s = "Symbol" -> BinderOf(env, e.name) # 0
      [] e.s = "Let" ->
            /\ \A k \in 1..Len(e.bindings) : WellFormed(e.bindings[k][2], env)
            /\ WellFormed(e.body,
                          env \o [k \in 1..Len(e.bindings) |-> e.bindings[k][1]])
      [] e.s = "Define" -> WellFormed(e.val, env \o e.args)
      [] e.s = "If" ->
            WellFormed(e.cnd, env) /\ WellFormed(e.thn, env)
            /\ WellFormed(e.els, env)
      [] e.s = "App" -> \A k \in 1..Len(e.args) : WellFormed(e.args[k], env)
      [] e.s = "List" -> \A k \in 1..Len(e.elts) : WellFormed(e.elts[k], env)
      [] e.s = "Prog" ->
            /\ \A k \in 1..Len(e.defs) : WellFormed(e.defs[k], env)
            /\ WellFormed(e.e, env)
      [] OTHER -> TRUE

RECURSIVE AlphaEqual(_, _, _, _)
\* a in the scope of the binders ea is b in the scope of the binders eb, up
\* to the names of the binders: a reference belongs to the binder at the same
\* position in both, and a free name is the same name in both
AlphaEqual(a, b, ea, eb) ==
    IF a.s # b.s THEN FALSE
    ELSE CASE a.s = "Symbol" ->
                 /\ BinderOf(ea, a.name) = BinderOf(eb, b.name)
                 /\ BinderOf(ea, a.name) = 0 => a.name = b.name
           [] a.s = "Let" ->
                 /\ Len(a.bindings) = Len(b.bindings)
                 /\ \A k \in 1..Len(a.bindings) :
                       k <= Len(b.bindings) =>
                           AlphaEqual(a.bindings[k][2], b.bindings[k][2], ea, eb)
                 /\ AlphaEqual(
                        a.body, b.body,
                        ea \o [k \in 1..Len(a.bindings) |-> a.bindings[k][1]],
                        eb \o [k \in 1..Len(b.bindings) |-> b.bindings[k][1]])
           [] a.s = "Define" ->
                 /\ a.name = b.name
                 /\ Len(a.args) = Len(b.args)
                 /\ AlphaEqual(a.val, b.val, ea \o a.args, eb \o b.args)
           [] a.s = "If" ->
                 /\ AlphaEqual(a.cnd, b.cnd, ea, eb)
                 /\ AlphaEqual(a.thn, b.thn, ea, eb)
                 /\ AlphaEqual(a.els, b.els, ea, eb)
           [] a.s = "App" ->
                 /\ a.f = b.f
                 /\ Len(a.args) = Len(b.args)
                 /\ \A k \in 1..Len(a.args) :
                       k <= Len(b.args) =>
                           AlphaEqual(a.args[k], b.args[k], ea, eb)
           [] a.s = "List" ->
                 /\ Len(a.elts) = Len(b.elts)
                 /\ \A k \in 1..Len(a.elts) :
                       k <= Len(b.elts) =>
                           AlphaEqual(a.elts[k], b.elts[k], ea, eb)
           [] a.s = "Prog" ->
                 /\ Len(a.defs) = Len(b.defs)
                 /\ \A k \in 1..Len(a.defs) :
                       k <= Len(b.defs) =>
                           AlphaEqual(a.defs[k], b.defs[k], ea, eb)
                 /\ AlphaEqual(a.e, b.e, ea, eb)
           [] OTHER -> a = b

\* the program read_input gives to uniquify
ProgramRead ==
    SExprProg(SubSeq(source, 1, Len(source) - 1), source[Len(source)])

\* C14.  Uniquify idempotence: when uniquify has returned on a well-formed
\* program, uniquify of its result, with the counter reset and an empty
\* mapping, returns, and returns the same program up to the names of the
\* bound variables.
UniquifyIdempotent ==
    (file = "text" /\ pc = "flatten" /\ WellFormed(ProgramRead, <<>>)) =>
        LET again == uniquify(<<>>, 0, prog)
        IN  /\ again.how = ""
            /\ AlphaEqual(again.expr, prog, <<>>, <<>>)

(***************************************************************************)
(* Whole runs followed by the run of the emitted text: read_input, then    *)
(* the assembly linked with print_int and started.                         *)
(***************************************************************************)
NextRun ==
    \/ NextSrc
    \/ Run
    \/ Step

SpecRun == InitSrc /\ [][NextRun]_vars

RECURSIVE HasValue(_, _)
\* e, with the names of env bound, is in the part of the source language
\* the reference interpreter below gives a value: integers, booleans, let,
\* if, + and - and =
HasValue(e, env) ==
    CASE e.s \in {"Number", "Bool"} -> TRUE
      [] e.s = "Symbol" -> e.name \in env
      [] e.s = "Let" ->
            /\ \A k \in 1..Len(e.bindings) : HasValue(e.bindings[k][2], env)
            /\ HasValue(e.body,
                        env \cup {e.bindings[k][1] : k \in 1..Len(e.bindings)})
      [] e.s = "If" ->
            HasValue(e.cnd, env) /\ HasValue(e.thn, env) /\ HasValue(e.els, env)
      [] e.s = "App" ->
            /\ \/ e.f \in {SExprSymbol(PLUS), SExprSymbol(EQ)} /\ Len(e.args) = 2
               \/ e.f = SExprSymbol(MINUS) /\ Len(e.args) = 1
            /\ \A k \in 1..Len(e.args) : HasValue(e.args[k], env)
      [] OTHER -> FALSE

RECURSIVE BindAll(_, _, _, _)
RECURSIVE Eval(_, _)
\* env with the bindings from the k-th on added, each value taken in outer
BindAll(bindings, k, outer, env) ==
    IF k > Len(bindings) THEN env
    ELSE BindAll(bindings, k + 1, outer,
                 [x \in DOMAIN env \cup {bindings[k][1]} |->
                     IF x = bindings[k][1] THEN Eval(bindings[k][2], outer)
                     ELSE env[x]])

\* the reference interpreter: the value of e where env gives the values of
\* the names in scope; a boolean is 1 or 0, as print_int shows it
Eval(e, env) ==
    CASE e.s = "Number" -> e.n
      [] e.s = "Bool" -> IF e.b THEN 1 ELSE 0
      [] e.s = "Symbol" -> env[e.name]
      [] e.s = "Let" -> Eval(e.body, BindAll(e.bindings, 1, env, env))
      [] e.s = "If" ->
            IF Eval(e.cnd, env) # 0 THEN Eval(e.thn, env) ELSE Eval(e.els, env)
      [] e.s = "App" ->
            CASE e.f = SExprSymbol(PLUS) ->
                    Eval(e.args[1], env) + Eval(e.args[2], env)
              [] e.f = SExprSymbol(MINUS) -> 0 - Eval(e.args[1], env)
              [] e.f = SExprSymbol(EQ) ->
                    IF Eval(e.args[1], env) = Eval(e.args[2], env) THEN 1 ELSE 0

\* C15.  Semantic round-trip: when the run of the text emitted for a source
\* program that has a value has ended, it has ended by main's return and
\* has printed that value, once.
SemanticRoundTrip ==
    (/\ file = "text"
     /\ mach \in {"done", "fault"}
     /\ HasValue(source[Len(source)], {})) =>
        /\ mach = "done"
        /\ printed = <<Eval(source[Len(source)], <<>>)>>

(***************************************************************************)
(* Properties of lower_conditionals and select_instructions, under Spec.   *)
(***************************************************************************)
\* main's instructions and those of each define
FunctionBodies(p) == {p.instrs} \cup {p.defs[k].instrs : k \in 1..Len(p.defs)}

\* C16.  When lower_conditionals has returned, no instruction of main or of
\* a define is a structured If or an EqP; the lowered lists have no nested
\* list an If could be in.
ConditionalsLowered ==
    pc = "patch_instructions" =>
        \A l \in FunctionBodies(prog) : \A k \in 1..Len(l) :
            /\ l[k].op \notin {"If", "IfWithLives", "EqP"}
            /\ l[k].op \in {"Mov", "Add", "Cmp", "Call", "JmpIf", "Jmp", "Label"}

\* the statement lists of the Flat program: main's and those of the defines
FlatBodies == {source.assigns} \cup {source.defs[k].assigns : k \in 1..Len(source.defs)}

\* C16 happening: lower_conditionals returned on a program with an If in
\* each branch of an If
NestedIfLowered ==
    /\ pc = "patch_instructions"
    /\ \E l \in FlatBodies : \E k \in 1..Len(l) :
          /\ l[k].t = "If"
          /\ l[k].thn[1].t = "If"
          /\ l[k].els[1].t = "If"

RECURSIVE WideCallIn(_)
\* a statement of the list assigns a call of more than six arguments, at any
\* depth of the list's ifs
WideCallIn(stmts) ==
    \E k \in 1..Len(stmts) :
        \/ /\ stmts[k].t = "Assign"
           /\ stmts[k].e.t = "App"
           /\ Len(stmts[k].e.args) > 6
        \/ /\ stmts[k].t = "If"
           /\ WideCallIn(stmts[k].thn) \/ WideCallIn(stmts[k].els)

\* the Flat program has a call of more than six arguments or a define of
\* more than six parameters
TooWide ==
    \/ \E l \in FlatBodies : WideCallIn(l)
    \/ \E k \in 1..Len(source.defs) : Len(source.defs[k].args) > 6

\* C17.  select_instructions does not return on a program with a call of
\* more than six arguments or a define of more than six parameters: the
\* process ends in it, with a nonzero status and no assembly.
WideCallsRefused ==
    (TooWide /\ pc # "select_instructions") =>
        /\ pc = "exited"
        /\ aborted = "select_instructions"
        /\ status # 0
        /\ ~AssemblyWritten

\* C17 happening: the run of a program with seven arguments to a call of a
\* define of six parameters has ended
SevenArgumentsRefused ==
    /\ pc = "exited"
    /\ \E l \in FlatBodies : WideCallIn(l)
    /\ \A k \in 1..Len(source.defs) : Len(source.defs[k].args) <= 6

\* the other case of C17: seven parameters, and six arguments to the call
SevenParametersRefused ==
    /\ pc = "exited"
    /\ ~ \E l \in FlatBodies : WideCallIn(l)
    /\ \E k \in 1..Len(source.defs) : Len(source.defs[k].args) > 6

(***************************************************************************)
(* Properties of the loop of allocate_registers, under SpecAlloc.          *)
(***************************************************************************)
\* the interval the next iteration of the loop handles
NextInterval == live_intervals_vec[next_interval]

\* the active intervals that end before the line s, in the list's order
ExpiredAt(s) == SelectSeq(alloc.active_intervals, LAMBDA a : a.end < s)

\* the registers of the intervals of seq that have one, in order
RegistersOf(seq) ==
    LET held == SelectSeq(seq, LAMBDA a : a.v \in DOMAIN alloc.mapping)
    IN  [k \in 1..Len(held) |-> alloc.mapping[held[k].v]]

\* C18.  An iteration of the loop, for an interval that starts at s, does
\* not abort; it removes from the active list exactly the intervals that
\* end before s and adds the new one; and the free list is the old one with
\* the register of each removed interval added once, less the register the
\* new interval takes.
ExpiryExact ==
    [][(pc = "allocating" /\ next_interval <= Len(live_intervals_vec)) =>
          LET s == NextInterval.start
              pool == alloc.free \o RegistersOf(ExpiredAt(s))
          IN  /\ alloc'.how = ""
              /\ alloc'.active_intervals =
                     Append(SelectSeq(alloc.active_intervals,
                                      LAMBDA a : a.end >= s),
                            NextInterval)
              /\ alloc'.free = SubSeq(pool, 1, Len(pool) - 1)]_vars

\* C19.  allocate_registers processes the intervals in nondecreasing order
\* of start: of any two intervals the loop has processed, the one processed
\* first does not start after the other.
ProcessedByStart ==
    pc \in {"allocating", "allocated"} =>
        \A i \in 1..(next_interval - 1) : \A j \in (i + 1)..(next_interval - 1) :
            live_intervals_vec[i].start <= live_intervals_vec[j].start


(***************************************************************************)
(* Properties of compute_live_intervals, under Spec.  main.rs 446-474      *)
(* gives a straight-line instruction the value line_num has when its live  *)
(* set is visited: the branches of an IfWithLives both start at the line   *)
(* of the if, and the instructions after it start Len(thn) + Len(els)      *)
(* lines later.                                                            *)
(***************************************************************************)
RECURSIVE LinesIn(_, _, _, _)
\* the pairs <<n, live_set>> of the straight-line instructions of instrs[i..]
\* and of the branches of its ifs, n the line the instruction is visited at
LinesIn(instrs, live_sets, line_num, i) ==
    IF i > Min(Len(instrs), Len(live_sets))
    THEN {}
    ELSE LET instr == instrs[i]
         IN  IF instr.op = "IfWithLives"
             THEN LinesIn(instr.thn, instr.thn_lives, line_num, 1)
                  \cup LinesIn(instr.els, instr.els_lives, line_num, 1)
                  \cup LinesIn(instrs, live_sets,
                               line_num + Len(instr.thn) + Len(instr.els), i + 1)
             ELSE {<<line_num, live_sets[i]>>}
                  \cup LinesIn(instrs, live_sets, line_num + 1, i + 1)

\* the intervals decide_locs computes for the function f
IntervalsOf(f) == compute_live_intervals(f.instrs, f.live_sets, <<>>, 1)

\* C20. Once assign_homes has returned, in every function the interval of a
\* variable v covers every straight-line instruction, at any depth of ifs,
\* whose live set contains v: start <= n - 1 and n <= end for its line n.
IntervalsConservative ==
    pc = "lower_conditionals" =>
        \A f \in FunctionsHomed :
            \A l \in LinesIn(f.instrs, f.live_sets, 1, 1) : \A v \in l[2] :
                /\ v \in DOMAIN IntervalsOf(f)
                /\ IntervalsOf(f)[v][1] <= l[1] - 1
                /\ l[1] <= IntervalsOf(f)[v][2]


(***************************************************************************)
(* Properties of get_live_after_sets, under Spec.  In main.rs 359-422 the  *)
(* set carried in to an instruction, live_of_next, is the set pushed for   *)
(* the instruction after it (lines 393-394 and 412-413), or the parameter  *)
(* lives for the last instruction of the list (line 361); the branches of  *)
(* an If are analysed from the set carried in to the If (lines 369-372).   *)
(***************************************************************************)
RECURSIVE CarriedIn(_, _, _)
\* the triples <<instr, annotation, live_of_next>> of the instructions of an
\* annotated list and of the branches of its ifs
CarriedIn(instrs, live_sets, lives) ==
    UNION {LET live_of_next == IF k < Len(instrs) THEN live_sets[k + 1]
                               ELSE lives
           IN  {<<instrs[k], live_sets[k], live_of_next>>}
               \cup IF instrs[k].op = "IfWithLives"
                    THEN CarriedIn(instrs[k].thn, instrs[k].thn_lives,
                                   live_of_next)
                         \cup CarriedIn(instrs[k].els, instrs[k].els_lives,
                                        live_of_next)
                    ELSE {} : k \in 1..Len(instrs)}

\* the triples of main and of each define of a ProgWithLives
Carried(p) ==
    CarriedIn(p.instrs, p.live_sets, {})
    \cup UNION {CarriedIn(p.defs[k].instrs, p.defs[k].live_sets, {}) :
                   k \in 1..Len(p.defs)}

\* C21. When uncover_live has returned, the annotation of every
\* straight-line instruction is the live set after the instruction: the set
\* carried in to it, before its read and written variables are applied.
AnnotationIsLiveAfter ==
    pc = "assign_homes" =>
        \A t \in Carried(prog) : t[1].op # "IfWithLives" => t[2] = t[3]

\* the live set flowing into a branch: the first set of the branch, or the
\* set it was analysed from when the branch is empty (main.rs 361, 421)
Inflow(branch_lives, live_of_next) ==
    IF Len(branch_lives) > 0 THEN branch_lives[1] ELSE live_of_next

\* C22. When uncover_live has returned, the annotation of every If is the
\* union of the live set carried in to the If, the inflows of its two
\* branches and the variables of its condition, so it contains every Var
\* operand of the condition.
IfAnnotationIsUnion ==
    pc = "assign_homes" =>
        \A t \in Carried(prog) :
            t[1].op = "IfWithLives" =>
                /\ t[2] = t[3] \cup Inflow(t[1].thn_lives, t[3])
                               \cup Inflow(t[1].els_lives, t[3])
                               \cup cond_vars(t[1].cnd)
                /\ cond_vars(t[1].cnd) \subseteq t[2]

RECURSIVE StraightLine(_)
\* the straight-line instructions of a list and of the branches of its ifs
StraightLine(instrs) ==
    UNION {IF instrs[k].op = "If"
           THEN StraightLine(instrs[k].thn) \cup StraightLine(instrs[k].els)
           ELSE {instrs[k]} : k \in 1..Len(instrs)}

\* the Mov and Add instructions select_instructions produced
MovesAndAdds(p) ==
    {i \in UNION {StraightLine(l) : l \in Lists(p)} : i.op \in {"Mov", "Add"}}

\* C23. Liveness analysis accepts every Mov and Add select_instructions
\* produced: instruction_rw returns for it, with empty read and written
\* sets when no operand is a Var, and uncover_live does not abort.
MovesAndAddsAccepted ==
    /\ pc = "uncover_live" =>
          \A i \in MovesAndAdds(prog) :
              /\ instruction_rw(i).how = ""
              /\ (i.dst.a # "Var" /\ i.src.a # "Var") =>
                     instruction_rw(i) = RW({}, {})
    /\ aborted # "uncover_live"


(***************************************************************************)
(* Properties of lower_if, under Spec: the lowered list of a function      *)
(* against the list lower_conditionals was given.                          *)
(***************************************************************************)
\* the program lower_conditionals is given
BeforeLower == assign_homes(BeforeHomes)

RECURSIVE LoweredLen(_)
\* the number of instructions the list is lowered to: one for an instruction
\* that is not an If, five and its lowered branches for an If
LoweredLen(instrs) ==
    IF instrs = <<>> THEN 0
    ELSE (IF Head(instrs).op = "If"
          THEN 5 + LoweredLen(Head(instrs).els) + LoweredLen(Head(instrs).thn)
          ELSE 1) + LoweredLen(Tail(instrs))

RECURSIVE LowersTo(_, _)
RECURSIVE LowersOne(_, _)
\* out is the instructions of instrs, each lowered, one after the other
LowersTo(instrs, out) ==
    IF instrs = <<>> THEN out = <<>>
    ELSE LET n == LoweredLen(<<Head(instrs)>>)
         IN  /\ Len(out) >= n
             /\ LowersOne(Head(instrs), SubSeq(out, 1, n))
             /\ LowersTo(Tail(instrs), SubSeq(out, n + 1, Len(out)))

\* o is Cmp(R, L); JmpIf(E, then_k); the lowered else; Jmp(endif_k);
\* Label(then_k); the lowered then; Label(endif_k) for the If h, or h itself
LowersOne(h, o) ==
    IF h.op # "If" THEN o = <<h>>
    ELSE LET ne == LoweredLen(h.els)
             nt == LoweredLen(h.thn)
         IN  /\ Len(o) = 5 + ne + nt
             /\ o[1] = Cmp(h.cnd.right, h.cnd.left)
             /\ o[2].op = "JmpIf" /\ o[2].cc = "e"
             /\ LowersTo(h.els, SubSeq(o, 3, 2 + ne))
             /\ o[3 + ne].op = "Jmp"
             /\ o[4 + ne] = Label(o[2].label)
             /\ LowersTo(h.thn, SubSeq(o, 5 + ne, 4 + ne + nt))
             /\ o[5 + ne + nt] = Label(o[3 + ne].label)

\* the instruction lists of a Prog in order: the defines' and then main's
BodiesOf(p) == [k \in 1..Len(p.defs) |-> p.defs[k].instrs] \o <<p.instrs>>

\* C24. When lower_conditionals has returned, the list of every function is
\* the list it was given with each If replaced by Cmp(R, L); JmpIf(E,
\* then_k); the lowered else; Jmp(endif_k); Label(then_k); the lowered then;
\* Label(endif_k) and every other instruction as it was, and no two Label
\* instructions of the program carry the same label.
IfLoweredExactly ==
    pc = "patch_instructions" =>
        /\ Len(BodiesOf(prog)) = Len(BodiesOf(BeforeLower))
        /\ \A f \in 1..Len(BodiesOf(prog)) :
              LowersTo(BodiesOf(BeforeLower)[f], BodiesOf(prog)[f])
        /\ \A f \in 1..Len(BodiesOf(prog)) : \A g \in 1..Len(BodiesOf(prog)) :
              \A i \in 1..Len(BodiesOf(prog)[f]) :
                  \A j \in 1..Len(BodiesOf(prog)[g]) :
                      (/\ BodiesOf(prog)[f][i].op = "Label"
                       /\ BodiesOf(prog)[g][j].op = "Label"
                       /\ <<f, i>> # <<g, j>>) =>
                          BodiesOf(prog)[f][i].label # BodiesOf(prog)[g][j].label

\* C24 happening: lower_conditionals returned on a function with an If whose
\* else branch is an If and whose condition has two different operands
IfInElseLowered ==
    /\ pc = "patch_instructions"
    /\ \E f \in 1..Len(BodiesOf(BeforeLower)) :
          \E k \in 1..Len(BodiesOf(BeforeLower)[f]) :
              LET h == BodiesOf(BeforeLower)[f][k]
              IN  /\ h.op = "If"
                  /\ h.cnd.left # h.cnd.right
                  /\ h.els[1].op = "If"


(***************************************************************************)
(* Lexical scoping through uniquify, under SpecSrc, on whole runs.         *)
(***************************************************************************)
\* C25. When uniquify has returned on a well-formed program, every reference
\* of its result belongs to the binder at the position of the binder that
\* lexically binds it in the program read: the use of x in the right-hand
\* side of a binding of x, or after the body of a let that shadows x, is
\* named after the outer binder.
ScopingPreserved ==
    (file = "text" /\ pc = "flatten" /\ WellFormed(ProgramRead, <<>>)) =>
        AlphaEqual(ProgramRead, prog, <<>>, <<>>)


(***************************************************************************)
(* The homes of the variables that are live across a call, under Spec.     *)
(***************************************************************************)
\* rax and the argument registers: what a call sequence or a callee may
\* overwrite (main.rs 80-89 and 204-221)
CallerSaved == {"rax"} \cup Range(arg_reg_order)

\* the variables live immediately after the Call at position k of instrs:
\* written by an instruction before the call and read by an instruction
\* after it, with no If and no write of the variable in between
LiveAcross(instrs, k) ==
    {v \in UNION {instruction_rw(instrs[i]).written : i \in 1..(k - 1)} :
        \E j \in (k + 1)..Len(instrs) :
            /\ v \in instruction_rw(instrs[j]).read
            /\ \A m \in (k + 1)..j : instrs[m].op # "IfWithLives"
            /\ \A m \in (k + 1)..(j - 1) :
                  v \notin instruction_rw(instrs[m]).written}

\* C26. When assign_homes has returned, no variable live immediately after
\* a Call of main or of a define has its home in rax or in an argument
\* register.
LiveAcrossCallKept ==
    pc = "lower_conditionals" =>
        \A f \in FunctionsHomed : \A k \in 1..Len(f.instrs) :
            f.instrs[k].op = "Call" =>
                \A v \in LiveAcross(f.instrs, k) \cap DOMAIN LocsOf(f) :
                    ~(LocsOf(f)[v].a = "Reg" /\ LocsOf(f)[v].r \in CallerSaved)

====
